---------------------------- MODULE Spec2Model ----------------------------
(***************************************************************************)
(* A model of the stacked-DRG proof-of-replication core:                   *)
(*   storage-proofs/src/stacked/proof.rs          (StackedDrg)             *)
(*   storage-proofs/porep/src/stacked/vanilla/create_label.rs              *)
(*                                                                         *)
(* Scaling.  A node is NODE_SIZE = 1 byte instead of 32, so that a label   *)
(* is its own last byte and the field mask  &= 0b0011_1111  acts on it.    *)
(* The scalar field Fr is Z_FrModulus with 2^6 < FrModulus < 2^7, which    *)
(* keeps the relation 2^254 < r < 2^255 of BLS12-381: every masked label   *)
(* is a field element, and not every byte string is one.                   *)
(* Hash functions are small folds over the bytes they are fed, sensitive   *)
(* to the order and to the number of the bytes.                            *)
(***************************************************************************)
EXTENDS Integers, Sequences, FiniteSets, TLC

(***************************************************************************)
(* Bounds of the model.                                                    *)
(***************************************************************************)
MaxNodes == 4
MaxLayers == 3
MaxSeed == 1
MaxRid == 1
DBase == 2
DExp == 2
\* the challenges of a partition
ChallengeCount == 2
\* the seeds the challenges are derived from
MaxChalSeed == 1
\* the windows of prefetch_nodes, in nodes
MaxWindow == 3
\* the offsets of a buffer's first byte in its page
MaxOffset == 1
MaxDevices == 2
MaxBusId == 2
MaxEnvLen == 2
MaxCalls == 3

(***************************************************************************)
(* Program constants.                                                      *)
(***************************************************************************)
\* util::NODE_SIZE, scaled from 32 bytes to 1
NODE_SIZE == 1
\* the mask 0b0011_1111 applied to the last byte of a label
FieldMaskBits == 63
\* the order of Fr, scaled: 2^6 < FrModulus < 2^7
FrModulus == 113
\* the number of bytes of (node as u64).to_le_bytes()
IndexBytes == 8
\* one byte
ByteRange == 256
\* the partitions of a proof
PartitionCount == 2
\* the size of a page and of a node in the addresses of the page controller:
\* 4096 and 32 bytes scaled to 4 and 2, so that a node may lie across two pages
PageSize == 4
NodeBytes == 2

\* assert!(cond): the thread panics unless cond holds
AssertCompiledOut(cond) == TRUE
AssertHolds(cond) == cond

\* Option<T>: None, or Some(v)
None == <<>>
Some(v) == <<v>>
Unwrap(opt) == opt[1]

VARIABLES
    \* the arguments of replicate, extract and prove
    graph, replica_id, layers, data, data_tree,
    \* the data as the caller first held it
    orig,
    \* the frame of generate_layers
    gl_pc, gl_layer, gl_node, encoding, exp_parents_data, encodings,
    \* what generate_layers fed the hasher of the label it stored last, and
    \* what create_label or create_label_exp did
    gl_hashed, sdr_hashed,
    \* the frame of transform_and_replicate_layers and of its threads
    rep_pc, tree_d, rep_encodings, enc_done, enc_failed, trl_pc, tree_r_last,
    cs, col_iter, tree_c, rep_result,
    \* the frame of extract_and_invert_transform_layers
    ext_pc, ext_node, ext_result,
    \* the frame of prove_layers, its challenges, and the verifier's answer
    chal_fault, chal_seed, taper, prv_pc, prv_k, prv_idx, proofs, prv_result,
    ver_result,
    \* the encoding proofs the last closure of prove_layers built
    built,
    \* the frame of the loop that calls create_label and create_label_exp
    sdr_pc, sdr_layer, sdr_node, layer_labels, exp_labels, sdr_layers,
    \* a key and a node the per-node transforms are applied to
    tf_pc, tf_key, tf_node, tf_out,
    \* the frame of prefetch_nodes: its arguments, the pages left to unlock
    \* and to lock, the pages the system has unlocked and locked for it
    pg_pc, pg_args, pg_unlock, pg_lock, pg_unlocked, pg_locked, pg_failed, pg_result,
    \* the frame of get_gpu_index: the devices, the environment, the result
    gpu_pc, gpu_devices, gpu_env, bus_ids, gpu_result,
    \* one page map under a sequence of build_pages calls: the map, the byte
    \* ranges the calls took, the number of calls
    bp_pages, bp_seen, bp_calls,
    \* whether the stores and the tree builder may fail a thread of replicate
    thread_faults

(***************************************************************************)
(* Sequences helpers.                                                      *)
(***************************************************************************)
RECURSIVE FoldBytes(_, _, _)
\* a hasher state fed the bytes of a sequence one after the other
FoldBytes(state, mult, bytes) ==
    IF bytes = <<>> THEN state
    ELSE FoldBytes((state * mult + Head(bytes) + 1) % ByteRange, mult, Tail(bytes))

RECURSIVE ShiftBytes(_, _)
\* x >> (8 * k)
ShiftBytes(x, k) == IF k = 0 THEN x ELSE ShiftBytes(x \div ByteRange, k - 1)

\* (x as u64).to_le_bytes(): least significant byte first
ToLeBytes(x) == [i \in 1..IndexBytes |-> ShiftBytes(x, i - 1) % ByteRange]

\* (x as u64).to_be_bytes(): most significant byte first
ToBeBytes(x) == [i \in 1..IndexBytes |-> ShiftBytes(x, IndexBytes - i) % ByteRange]

(***************************************************************************)
(* Hashers.                                                                *)
(***************************************************************************)
\* Blake2s::new().hash_length(NODE_SIZE).to_state()
Blake2sNew == 107
Blake2sUpdate(state, bytes) == FoldBytes(state, 33, bytes)
\* finalize(): NODE_SIZE bytes
Blake2sFinalize(state) == (state * 5 + 11) % ByteRange

\* Sha256::new(), input(bytes), finish()
Sha256New == 31
Sha256Input(state, bytes) == FoldBytes(state, 13, bytes)
Sha256Finish(state) == (state * 7 + 3) % ByteRange

\* strip last two bits, to ensure result is in Fr
MaskNoStrip(byte) == byte
FieldMask(byte) == byte % (FieldMaskBits + 1)

\* H::Domain::try_from_bytes: the bytes are a field element, or an error
IsFr(byte) == byte < FrModulus

(***************************************************************************)
(* The graph (StackedBucketGraph): size, degree and parents.  A graph is   *)
(* [size, seed, fault]; fault is NoFault, or names one entry of the        *)
(* parents of one node that is returned as another index.                  *)
(***************************************************************************)
NoFault == [node |-> -1, slot |-> 0, index |-> 0]
\* graph.base_graph().degree()
BaseDegree == DBase
\* graph.degree()
Degree == DBase + DExp

\* entry i of the parents of node x as the generator draws it: base parents
\* first (below x, the last of them x - 1; all 0 for node 0), expander
\* parents after them (any node)
SeededParent(g, x, i) ==
    IF i <= BaseDegree
    THEN IF x = 0 THEN 0
         ELSE IF i = BaseDegree THEN x - 1
         ELSE (g.seed + 3 * x + i) % x
    ELSE (5 * g.seed + 3 * x + 2 * (i - BaseDegree) + 1) % g.size

\* graph.parents(x, &mut parents): layout [base.., exp..]
Parents(g, x) ==
    [i \in 1..Degree |->
        IF g.fault.node = x /\ g.fault.slot = i
        THEN g.fault.index
        ELSE SeededParent(g, x, i)]

\* graph.base_parents(x, &mut parents)
BaseParents(g, x) == SubSeq(Parents(g, x), 1, BaseDegree)

\* graph.expanded_parents(x, cb)
ExpandedParents(g, x) == SubSeq(Parents(g, x), BaseDegree + 1, Degree)

(***************************************************************************)
(* Byte buffers of nodes.  A buffer is a sequence of nodes, node x at      *)
(* position x + 1.                                                         *)
(***************************************************************************)
\* util::data_at_node_offset
DataAtNodeOffset(x) == x * NODE_SIZE

\* util::data_at_node(buf, x): Ok(the node) or Err when x is past the end
DataAtNodeOk(buf, x) == DataAtNodeOffset(x) + NODE_SIZE <= Len(buf) * NODE_SIZE
DataAtNode(buf, x) == buf[x + 1]

\* vec![0u8; layer_size]
ZeroBuffer(n) == [i \in 1..n |-> 0]

(***************************************************************************)
(* Encoder: encode(key, value) = key + value, decode(key, value) =         *)
(* value - key, in Fr.                                                     *)
(***************************************************************************)
encode(key, value) == (value + key) % FrModulus
decode(key, value) == (value + FrModulus - key) % FrModulus

(***************************************************************************)
(* Commitment hash and Merkle trees.  A tree is [leafs, root]; an opening  *)
(* is [leaf, index, auth, root] where auth stands for the sibling path: it *)
(* validates when it hashes to the root and holds the leaf at the index.   *)
(***************************************************************************)
\* the Pedersen compression of a byte string into Fr
Pedersen(bytes) == FoldBytes(29, 7, bytes) % FrModulus

\* hash2(first, second)
hash2(first, second) == Pedersen(<<first, second>>)

MerkleRoot(leafs) == Pedersen(<<Len(leafs)>> \o leafs)

\* MerkleTree::from_par_iter(leafs)
MerkleTree(leafs) == [leafs |-> leafs, root |-> MerkleRoot(leafs)]

\* MerkleProof::new_from_proof(&tree.gen_proof(i))
GenProof(tree, i) ==
    [leaf |-> tree.leafs[i + 1], index |-> i, auth |-> tree.leafs, root |-> tree.root]

\* proof.validate(i) against a commitment
ProofValidates(proof, i, comm) ==
    /\ proof.index = i
    /\ proof.root = comm
    /\ MerkleRoot(proof.auth) = proof.root
    /\ i + 1 \in DOMAIN proof.auth
    /\ proof.auth[i + 1] = proof.leaf

(***************************************************************************)
(* Key derivation of generate_layers (CreateKey inlined).                  *)
(***************************************************************************)
\* every data_at_node(..).expect("invalid node") of the node succeeds
ParentsInRange(g, node, enc, expd) ==
    LET parents == Parents(g, node) IN
    \/ node = 0
    \/ /\ \A i \in 1..BaseDegree : DataAtNodeOk(enc, parents[i])
       /\ expd # None =>
             \A i \in (BaseDegree + 1)..Degree : DataAtNodeOk(Unwrap(expd), parents[i])

\* every parent label read from the buffer of the layer being written
ParentLabelsFromOneBuffer(g, node, enc, expd) ==
    LET parents == Parents(g, node) IN
    IF node > 0
    THEN [i \in 1..(IF expd # None THEN Degree ELSE BaseDegree) |->
             DataAtNode(enc, parents[i])]
    ELSE <<>>

\* the labels fed to the hasher after the node id: base parents from the
\* buffer of the layer being written, expander parents from the snapshot of
\* the layer before it (when there is one); nothing for node 0
ParentLabels(g, node, enc, expd) ==
    LET parents == Parents(g, node) IN
    IF node > 0
    THEN [i \in 1..BaseDegree |-> DataAtNode(enc, parents[i])]
         \o (IF expd # None
             THEN [i \in 1..(Degree - BaseDegree) |->
                      DataAtNode(Unwrap(expd), parents[BaseDegree + i])]
             ELSE <<>>)
    ELSE <<>>

\* the hash fed the node's chunk of the data buffer as well
CreateKeyOverData(rid, node, parentLabels) ==
    Blake2sFinalize(Blake2sUpdate(Blake2sUpdate(Blake2sUpdate(Blake2sNew, <<rid>>),
                                                ToLeBytes(node)),
                                  parentLabels \o <<data[node + 1]>>))

\* the bytes the hasher of a key is updated with, in order: the replica id,
\* the node id, the parent labels
KeyInputBigEndian(rid, node, parentLabels) == <<rid>> \o ToBeBytes(node) \o parentLabels
KeyInput(rid, node, parentLabels) == <<rid>> \o ToLeBytes(node) \o parentLabels

\* the hash of replica id, node id (little endian) and parent labels
CreateKey(rid, node, parentLabels) ==
    Blake2sFinalize(Blake2sUpdate(Blake2sNew, KeyInput(rid, node, parentLabels)))

\* the buffer after the key of the node is stored and masked
StoreKey(enc, node, key) == [enc EXCEPT ![DataAtNodeOffset(node) + 1] = FieldMask(key)]

\* encodings.column_hash(x): the hash of the labels of node x in layers 1..L
ColumnOf(encs, x) == [l \in 1..Len(encs) |-> DataAtNode(encs[l], x)]
HashColumn(rows) == Pedersen(<<101>> \o rows)
column_hash(encs, x) == HashColumn(ColumnOf(encs, x))

(***************************************************************************)
(* Inputs of a run.                                                        *)
(***************************************************************************)
\* a replica id (a field element, as the caller supplies it)
RidOf(r) == (41 * r + 17) % (FieldMaskBits + 1)

\* a byte that is no field element
NotFr == 200

\* the caller's data: field elements, but for node `bad` (when below n)
DataOf(n, seed, bad) ==
    [i \in 1..n |-> IF i - 1 = bad THEN NotFr ELSE (37 * seed + 11 * i + 3) % FrModulus]

\* a tree over the data the caller may pass as data_tree
GivenTree(n, seed) == MerkleTree(DataOf(n, seed, n))

inputs == <<graph, replica_id, layers, data_tree, orig, chal_fault, thread_faults>>
glvars == <<gl_pc, gl_layer, gl_node, encoding, exp_parents_data, encodings, gl_hashed>>
repvars == <<rep_pc, tree_d, rep_encodings, enc_done, enc_failed, trl_pc, tree_r_last,
             cs, col_iter, tree_c, rep_result>>
extvars == <<ext_pc, ext_node, ext_result>>
prvvars == <<chal_seed, taper, prv_pc, prv_k, prv_idx, proofs, prv_result, ver_result,
             built>>
sdrvars == <<sdr_pc, sdr_layer, sdr_node, layer_labels, exp_labels, sdr_layers,
             sdr_hashed>>
tfvars == <<tf_pc, tf_key, tf_node, tf_out>>
pgvars == <<pg_pc, pg_args, pg_unlock, pg_lock, pg_unlocked, pg_locked, pg_failed,
            pg_result>>
gpuvars == <<gpu_pc, gpu_devices, gpu_env, bus_ids, gpu_result, bp_pages, bp_seen, bp_calls>>
vars == <<inputs, data, glvars, repvars, extvars, prvvars, sdrvars, tfvars, pgvars,
          gpuvars>>

Workers == {"a", "b", "c", "d"}
\* no label stored yet
NoHashed == [layer |-> 0, node |-> 0, input |-> <<>>, parents |-> <<>>]
NoResult == [status |-> "none"]

\* the graphs the generator builds
ValidGraphs == [size : 2..MaxNodes, seed : 0..MaxSeed, fault : {NoFault}]

\* no challenge is replaced
NoChalFault == [k |-> -1, idx |-> 0, challenge |-> 0]

\* every frame before any call
InitFrames ==
    /\ gl_pc = "idle" /\ gl_layer = 0 /\ gl_node = 0
    /\ encoding = <<>> /\ exp_parents_data = None /\ encodings = <<>>
    /\ gl_hashed = NoHashed /\ sdr_hashed = NoHashed
    /\ rep_pc = "idle" /\ tree_d = None /\ rep_encodings = <<>>
    /\ enc_done = {} /\ enc_failed = FALSE
    /\ trl_pc = "idle" /\ tree_r_last = None
    /\ cs = <<>> /\ col_iter = [w \in Workers |-> 0] /\ tree_c = None
    /\ rep_result = NoResult
    /\ ext_pc = "idle" /\ ext_node = 0 /\ ext_result = NoResult
    /\ chal_seed = 0 /\ taper = FALSE
    /\ prv_pc = "idle" /\ prv_k = 0 /\ prv_idx = 0 /\ proofs = <<>>
    /\ prv_result = NoResult /\ ver_result = NoResult /\ built = <<>>
    /\ sdr_pc = "idle" /\ sdr_layer = 0 /\ sdr_node = 0
    /\ layer_labels = <<>> /\ exp_labels = <<>> /\ sdr_layers = <<>>
    /\ tf_pc = "idle" /\ tf_key = 0 /\ tf_node = 0 /\ tf_out = <<>>
    /\ pg_pc = "idle" /\ pg_args = <<>> /\ pg_unlock = <<>> /\ pg_lock = <<>>
    /\ pg_unlocked = {} /\ pg_locked = {} /\ pg_failed = FALSE
    /\ pg_result = NoResult
    /\ gpu_pc = "idle" /\ gpu_devices = <<>> /\ gpu_env = <<>> /\ bus_ids = <<>>
    /\ gpu_result = NoResult
    /\ bp_pages = <<>> /\ bp_seen = {} /\ bp_calls = 0

\* the environment the generator and the challenge derivation make: a graph
\* as generated, every challenge as derived
ValidEnvs == [graph : ValidGraphs, chal_fault : {NoChalFault}]

\* the caller's arguments: any data with or without a chunk that is no
\* field element, with or without a tree over the data (or over other data)
InitArgs(envs) ==
    /\ \E env \in envs : graph = env.graph /\ chal_fault = env.chal_fault
    /\ replica_id \in {RidOf(r) : r \in 0..MaxRid}
    /\ layers \in 1..MaxLayers
    /\ \E bad \in {1, graph.size} :
          /\ data = DataOf(graph.size, graph.seed, bad)
          /\ data_tree \in {None, Some(GivenTree(graph.size, graph.seed)),
                             Some(GivenTree(graph.size, graph.seed + 1))}
    /\ orig = data

Init == InitArgs(ValidEnvs) /\ InitFrames /\ thread_faults = FALSE

\* an environment that keeps no promise: a graph that returns, for one
\* entry of the parents of one node, an index up to size + 1, or a challenge
\* derivation that yields 0 or size for one challenge
FaultyGraphs ==
    {g \in [size : 2..MaxNodes, seed : 0..MaxSeed,
            fault : [node : 0..(MaxNodes - 1), slot : {1, BaseDegree + 1},
                     index : 0..(MaxNodes + 1)]] :
        /\ g.fault.node \in {0, 1, g.size - 1}
        /\ g.fault.index \in {g.size - 1, g.size, g.size + 1}}

ChalFaults(size) ==
    [k : 0..(PartitionCount - 1), idx : 0..(ChallengeCount - 1), challenge : {0, size}]

OpenEnvs ==
    ValidEnvs
    \cup [graph : FaultyGraphs, chal_fault : {NoChalFault}]
    \cup {env \in [graph : ValidGraphs,
                    chal_fault : UNION {ChalFaults(n) : n \in 2..MaxNodes}] :
             env.chal_fault.challenge \in {0, env.graph.size}}

\* the caller's arguments in such an environment: data of field elements
InitArgsOpen ==
    /\ \E env \in OpenEnvs : graph = env.graph /\ chal_fault = env.chal_fault
    /\ replica_id = RidOf(0)
    /\ layers \in 1..MaxLayers
    /\ data = DataOf(graph.size, graph.seed, graph.size)
    /\ data_tree = None
    /\ orig = data

InitOpenEnv == InitArgsOpen /\ InitFrames /\ thread_faults = FALSE

(***************************************************************************)
(* generate_layers                                                         *)
(***************************************************************************)
\* the call: fresh buffers, layer 1, node 0
GenerateLayersCall ==
    /\ gl_pc' = "run"
    /\ gl_layer' = 1
    /\ gl_node' = 0
    /\ encoding' = ZeroBuffer(graph.size * NODE_SIZE)
    /\ exp_parents_data' = None
    /\ encodings' = <<>>
    /\ gl_hashed' = NoHashed

\* for node in 0..graph.size(): the node after node
NextNodeSkipping(node) == node + 2
NextNode(node) == node + 1

\* one pass of the node loop: the key of gl_node is derived and stored, or a
\* parent lies outside the buffer and the thread panics
GenerateLayersNode ==
    /\ gl_pc = "run"
    /\ gl_node < graph.size
    /\ IF ParentsInRange(graph, gl_node, encoding, exp_parents_data)
       THEN /\ encoding' = StoreKey(encoding, gl_node,
                   CreateKey(replica_id, gl_node,
                       ParentLabels(graph, gl_node, encoding, exp_parents_data)))
            /\ gl_hashed' =
                  LET fed == ParentLabels(graph, gl_node, encoding, exp_parents_data)
                  IN [layer |-> gl_layer, node |-> gl_node,
                      input |-> KeyInput(replica_id, gl_node, fed), parents |-> fed]
            /\ gl_node' = NextNode(gl_node)
            /\ gl_pc' = gl_pc
       ELSE /\ gl_pc' = "panic"
            /\ UNCHANGED <<encoding, gl_node, gl_hashed>>
    /\ UNCHANGED <<gl_layer, exp_parents_data, encodings>>
    /\ UNCHANGED <<inputs, pgvars, gpuvars, sdrvars, tfvars, data, repvars, extvars, prvvars>>

\* exp_parents_data = Some(encoding.clone())
ExpParentsNotCloned(enc) == None
ExpParentsSnapshot(enc) == Some(enc)

\* the end of a layer: the buffer is cloned as the expander parents of the
\* next layer and written to a store, which may fail; after the last layer,
\* assert_eq!(encodings.len(), layers)
GenerateLayersEndLayer ==
    /\ gl_pc = "run"
    /\ gl_node = graph.size
    /\ exp_parents_data' = ExpParentsSnapshot(encoding)
    /\ \E store_ok \in BOOLEAN :
          IF store_ok
          THEN /\ encodings' = Append(encodings, encoding)
               /\ IF gl_layer = layers
                  THEN /\ gl_pc' = IF AssertHolds(Len(encodings') = layers)
                                   THEN "ok" ELSE "panic"
                       /\ UNCHANGED <<gl_layer, gl_node>>
                  ELSE gl_pc' = gl_pc /\ gl_layer' = gl_layer + 1 /\ gl_node' = 0
          ELSE /\ gl_pc' = "err"
               /\ UNCHANGED <<encodings, gl_layer, gl_node>>
    /\ UNCHANGED <<encoding, gl_hashed>>
    /\ UNCHANGED <<inputs, pgvars, gpuvars, sdrvars, tfvars, data, repvars, extvars, prvvars>>

GlJoinedAtOnce == TRUE
GlFinished == gl_pc \in {"ok", "err", "panic"}

(***************************************************************************)
(* transform_and_replicate_layers                                          *)
(***************************************************************************)
\* build_tree(tree_data): get_node(..).unwrap() of every leaf, then the tree
BuildTreeOk(tree_data) == \A i \in 1..Len(tree_data) : IsFr(tree_data[i])
build_tree(tree_data) == MerkleTree(tree_data)

\* the call: the length assertion, then the thread of generate_layers is
\* spawned
ReplicateCall ==
    /\ rep_pc = "idle"
    /\ ext_pc = "idle"
    /\ sdr_pc = "idle"
    /\ IF Len(data) = graph.size * NODE_SIZE /\ layers > 0
       THEN /\ GenerateLayersCall
            /\ rep_pc' = "tree_d"
            /\ UNCHANGED rep_result
       ELSE /\ rep_pc' = "done"
            /\ rep_result' = [status |-> "panic"]
            /\ UNCHANGED glvars
    /\ UNCHANGED <<tree_d, rep_encodings, enc_done, enc_failed, trl_pc, tree_r_last,
                   cs, col_iter, tree_c>>
    /\ UNCHANGED <<inputs, pgvars, gpuvars, sdrvars, tfvars, data, extvars, prvvars>>

\* the tree over the original data: the caller's, or built here
ReplicateTreeD ==
    /\ rep_pc = "tree_d"
    /\ IF data_tree # None
       THEN tree_d' = data_tree /\ rep_pc' = "join_layers"
       ELSE IF BuildTreeOk(data)
            THEN tree_d' = Some(build_tree(data)) /\ rep_pc' = "join_layers"
            ELSE tree_d' = tree_d /\ rep_pc' = "unwind"
    /\ UNCHANGED <<rep_encodings, enc_done, enc_failed, trl_pc, tree_r_last,
                   cs, col_iter, tree_c, rep_result>>
    /\ UNCHANGED <<inputs, pgvars, gpuvars, sdrvars, tfvars, data, glvars, extvars, prvvars>>

\* encodings_handle.join().expect("failed to encode layers")?
ReplicateJoinLayers ==
    /\ rep_pc = "join_layers"
    /\ GlFinished
    /\ CASE gl_pc = "ok" ->
              /\ rep_encodings' = encodings
              /\ rep_pc' = "encode"
              /\ UNCHANGED rep_result
         [] gl_pc = "err" ->
              /\ rep_pc' = "done"
              /\ rep_result' = [status |-> "err"]
              /\ UNCHANGED rep_encodings
         [] OTHER ->
              /\ rep_pc' = "unwind"
              /\ UNCHANGED <<rep_encodings, rep_result>>
    /\ UNCHANGED <<tree_d, enc_done, enc_failed, trl_pc, tree_r_last,
                   cs, col_iter, tree_c>>
    /\ UNCHANGED <<inputs, pgvars, gpuvars, sdrvars, tfvars, data, glvars, extvars, prvvars>>

\* encodings.encoding_at_last_layer()
EncodingAtLastLayer(encs) == encs[Len(encs)]

\* the pairs of the zip of the keys with the chunks of data
EncodePairs == 0..((IF Len(EncodingAtLastLayer(rep_encodings)) < Len(data)
                    THEN Len(EncodingAtLastLayer(rep_encodings))
                    ELSE Len(data)) - 1)

\* the chunk of node x after the closure of try_for_each ran on it
EncodeNodeBySubtracting(key, data_node_bytes) == decode(key, data_node_bytes)
EncodeNode(key, data_node_bytes) == encode(key, data_node_bytes)

\* one pair of the parallel loop: the chunk is replaced by its encoding, or
\* does not parse and the loop is failed
ReplicateEncodeNode(x) ==
    /\ rep_pc = "encode"
    /\ x \in EncodePairs \ enc_done
    /\ enc_done' = enc_done \cup {x}
    /\ IF IsFr(data[x + 1])
       THEN /\ data' = [data EXCEPT ![x + 1] =
                   EncodeNode(DataAtNode(EncodingAtLastLayer(rep_encodings), x), data[x + 1])]
            /\ UNCHANGED enc_failed
       ELSE /\ enc_failed' = TRUE
            /\ UNCHANGED data
    /\ UNCHANGED <<rep_pc, tree_d, rep_encodings, trl_pc, tree_r_last,
                   cs, col_iter, tree_c, rep_result>>
    /\ UNCHANGED <<inputs, pgvars, gpuvars, sdrvars, tfvars, glvars, extvars, prvvars>>

\* nodes_count / chunks
NodePartLen == graph.size \div 4

\* the end of the parallel loop: an error is returned, or the thread of
\* TreeR_last and the four column workers are spawned over a zeroed cs
ReplicateEncoded ==
    /\ rep_pc = "encode"
    /\ enc_failed \/ enc_done = EncodePairs
    /\ IF enc_failed
       THEN /\ rep_pc' = "done"
            /\ rep_result' = [status |-> "err"]
            /\ UNCHANGED <<trl_pc, cs, col_iter>>
       ELSE /\ rep_pc' = "columns"
            /\ trl_pc' = "run"
            /\ cs' = ZeroBuffer(graph.size * NODE_SIZE)
            /\ col_iter' = [w \in Workers |-> 0]
            /\ UNCHANGED rep_result
    /\ UNCHANGED <<tree_d, rep_encodings, enc_done, enc_failed, tree_r_last, tree_c>>
    /\ UNCHANGED <<inputs, pgvars, gpuvars, sdrvars, tfvars, data, glvars, extvars, prvvars>>

\* what the store of the layers or the tree builder may do to a thread
\* that uses it: fail it or not, where the environment has such faults
ThreadOutcomes == IF thread_faults THEN BOOLEAN ELSE {TRUE}

\* the thread of TreeR_last: build_tree(&r_last)
TreeRLastThread ==
    /\ trl_pc = "run"
    /\ \E built_ok \in ThreadOutcomes :
          IF BuildTreeOk(data) /\ built_ok
          THEN tree_r_last' = Some(build_tree(data)) /\ trl_pc' = "done"
          ELSE tree_r_last' = tree_r_last /\ trl_pc' = "panic"
    /\ UNCHANGED <<rep_pc, tree_d, rep_encodings, enc_done, enc_failed,
                   cs, col_iter, tree_c, rep_result>>
    /\ UNCHANGED <<inputs, pgvars, gpuvars, sdrvars, tfvars, data, glvars, extvars, prvvars>>

\* the first node of the range a worker iterates
ColRangeStartFromZero(w) == 0
ColRangeStart(w) ==
    CASE w = "a" -> 0
      [] w = "b" -> NodePartLen
      [] w = "c" -> 2 * NodePartLen
      [] w = "d" -> 3 * NodePartLen

\* the first node of the slice of cs a worker holds (split_at_mut)
ColSliceStart(w) ==
    CASE w = "a" -> 0
      [] w = "b" -> NodePartLen
      [] w = "c" -> 2 * NodePartLen
      [] w = "d" -> 3 * NodePartLen

\* the number of chunks of the slice of a worker, which bounds its zip
ColSliceLen(w) == IF w = "d" THEN graph.size - 3 * NodePartLen ELSE NodePartLen

\* one pass of the loop of a column worker: the chunk is written, or
\* column_hash panics over a failing store (the worker's count turns
\* negative)
ColumnWorker(w) ==
    /\ rep_pc = "columns"
    /\ col_iter[w] >= 0
    /\ col_iter[w] < ColSliceLen(w)
    /\ \E read_ok \in ThreadOutcomes :
          IF read_ok
          THEN /\ cs' = [cs EXCEPT ![ColSliceStart(w) + col_iter[w] + 1] =
                          column_hash(rep_encodings, ColRangeStart(w) + col_iter[w])]
               /\ col_iter' = [col_iter EXCEPT ![w] = @ + 1]
          ELSE /\ cs' = cs
               /\ col_iter' = [col_iter EXCEPT ![w] = -1]
    /\ UNCHANGED <<rep_pc, tree_d, rep_encodings, enc_done, enc_failed, trl_pc,
                   tree_r_last, tree_c, rep_result>>
    /\ UNCHANGED <<inputs, pgvars, gpuvars, sdrvars, tfvars, data, glvars, extvars, prvvars>>

\* a_handle.join(), b_handle.join(), c_handle.join(), d_handle.join(): every
\* worker has left its loop
ColumnsJoinedFirstOnly == col_iter["a"] = ColSliceLen("a") \/ col_iter["a"] < 0
ColumnsJoined == \A w \in Workers : col_iter[w] = ColSliceLen(w) \/ col_iter[w] < 0

\* x_handle.join().unwrap(): the panic of a worker is raised again
WorkerJoinNeverPanics == FALSE
WorkerJoinPanics == \E w \in Workers : col_iter[w] < 0

\* the four joins, then the tree for CommC
ReplicateJoinColumns ==
    /\ rep_pc = "columns"
    /\ ColumnsJoined
    /\ IF WorkerJoinPanics
       THEN tree_c' = tree_c /\ rep_pc' = "unwind"
       ELSE tree_c' = Some(build_tree(cs)) /\ rep_pc' = "join_r_last"
    /\ UNCHANGED <<tree_d, rep_encodings, enc_done, enc_failed, trl_pc, tree_r_last,
                   cs, col_iter, rep_result>>
    /\ UNCHANGED <<inputs, pgvars, gpuvars, sdrvars, tfvars, data, glvars, extvars, prvvars>>

\* the value transform_and_replicate_layers returns: comm_r is
\* H(comm_c || comm_r_last)
CommRSwapped(treeC, treeRLast) == hash2(treeRLast.root, treeC.root)
CommR(treeC, treeRLast) == hash2(treeC.root, treeRLast.root)

TransformedLayers(treeD, treeRLast, treeC, encs) ==
    [status |-> "ok",
     tau |-> [comm_d |-> treeD.root, comm_r |-> CommR(treeC, treeRLast)],
     p_aux |-> [comm_c |-> treeC.root, comm_r_last |-> treeRLast.root],
     t_aux |-> [encodings |-> encs, tree_c |-> treeC, tree_d |-> treeD,
                tree_r_last |-> treeRLast]]

\* tree_r_last_handle.join()?, comm_r, and the return
ReplicateReturn ==
    /\ rep_pc = "join_r_last"
    /\ trl_pc \in {"done", "panic"}
    /\ rep_pc' = "done"
    /\ rep_result' =
          IF trl_pc = "done"
          THEN TransformedLayers(Unwrap(tree_d), Unwrap(tree_r_last), Unwrap(tree_c),
                                 rep_encodings)
          ELSE [status |-> "err"]
    /\ UNCHANGED <<tree_d, rep_encodings, enc_done, enc_failed, trl_pc, tree_r_last,
                   cs, col_iter, tree_c>>
    /\ UNCHANGED <<inputs, pgvars, gpuvars, sdrvars, tfvars, data, glvars, extvars, prvvars>>

\* a panic of the scope's closure: the scope joins its threads, then the
\* panic goes on to the caller
ReplicateUnwind ==
    /\ rep_pc = "unwind"
    /\ GlFinished
    /\ trl_pc # "run"
    /\ rep_pc' = "done"
    /\ rep_result' = [status |-> "panic"]
    /\ UNCHANGED <<tree_d, rep_encodings, enc_done, enc_failed, trl_pc, tree_r_last,
                   cs, col_iter, tree_c>>
    /\ UNCHANGED <<inputs, pgvars, gpuvars, sdrvars, tfvars, data, glvars, extvars, prvvars>>

(***************************************************************************)
(* extract_and_invert_transform_layers, called on the caller's buffer: on  *)
(* the replica replicate left in it, or on the buffer as it is.            *)
(***************************************************************************)
\* the chunk of a node after the body of the loop ran on it
DecodeNodeByAdding(key, encoded_node_bytes) == encode(key, encoded_node_bytes)
DecodeNode(key, encoded_node_bytes) == decode(key, encoded_node_bytes)

\* the call: generate_layers is called in line
ExtractCall ==
    /\ ext_pc = "idle"
    /\ prv_pc = "idle"
    /\ sdr_pc = "idle"
    /\ \/ rep_pc = "idle"
       \/ rep_pc = "done" /\ rep_result.status = "ok"
    /\ GenerateLayersCall
    /\ ext_pc' = "layers"
    /\ UNCHANGED <<ext_node, ext_result>>
    /\ UNCHANGED <<inputs, pgvars, gpuvars, sdrvars, tfvars, data, repvars, prvvars>>

\* generate_layers(..)?
ExtractLayers ==
    /\ ext_pc = "layers"
    /\ GlFinished
    /\ IF gl_pc = "ok"
       THEN ext_pc' = "decode" /\ ext_node' = 0 /\ UNCHANGED ext_result
       ELSE /\ ext_pc' = "done"
            /\ ext_result' = [status |-> gl_pc]
            /\ UNCHANGED ext_node
    /\ UNCHANGED <<inputs, pgvars, gpuvars, sdrvars, tfvars, data, glvars, repvars, prvvars>>

\* a zip that stops one pair early
DecodePairsShort ==
    (IF Len(EncodingAtLastLayer(encodings)) < Len(data)
     THEN Len(EncodingAtLastLayer(encodings)) ELSE Len(data)) - 1

\* the pairs of the zip of the keys with the chunks of data
DecodePairs == IF Len(EncodingAtLastLayer(encodings)) < Len(data)
               THEN Len(EncodingAtLastLayer(encodings)) ELSE Len(data)

\* one pass of the loop: the chunk is replaced by its decoding, or does not
\* parse and the error is returned; after the last pair, Ok(())
ExtractDecodeNode ==
    /\ ext_pc = "decode"
    /\ IF ext_node < DecodePairs
       THEN IF IsFr(data[ext_node + 1])
            THEN /\ data' = [data EXCEPT ![ext_node + 1] =
                        DecodeNode(DataAtNode(EncodingAtLastLayer(encodings), ext_node),
                                   data[ext_node + 1])]
                 /\ ext_node' = ext_node + 1
                 /\ UNCHANGED <<ext_pc, ext_result>>
            ELSE /\ ext_pc' = "done"
                 /\ ext_result' = [status |-> "err"]
                 /\ UNCHANGED <<data, ext_node>>
       ELSE /\ ext_pc' = "done"
            /\ ext_result' = [status |-> "ok"]
            /\ UNCHANGED <<data, ext_node>>
    /\ UNCHANGED <<inputs, pgvars, gpuvars, sdrvars, tfvars, glvars, repvars, prvvars>>

(***************************************************************************)
(* prove_layers over what replicate returned, and the verifier.            *)
(***************************************************************************)
\* layer_challenges.include_challenge_at_layer(layer, challenge_index): every
\* challenge at every layer, or (tapering) fewer of them at earlier layers
IncludeChallengeAtLayer(tapered, total_layers, layer, challenge_index) ==
    \/ ~tapered
    \/ challenge_index < ChallengeCount - (total_layers - layer)
    \/ challenge_index = 0

\* pub_inputs.all_challenges(layer_challenges, graph_size, Some(k)): derived
\* from the replica id, comm_r and the seed, each in 1..graph_size-1
DeriveChallenge(rid, comm_r, seed, graph_size, k, idx) ==
    1 + ((rid + comm_r + 7 * seed + 5 * k + 3 * idx) % (graph_size - 1))

AllChallenges(fault, rid, comm_r, seed, graph_size, k) ==
    [j \in 1..ChallengeCount |->
        IF fault.k = k /\ fault.idx = j - 1
        THEN fault.challenge
        ELSE DeriveChallenge(rid, comm_r, seed, graph_size, k, j - 1)]

\* t_aux.column(x): the labels of node x in all layers, read from the stores
ColumnOk(t_aux, x) == \A l \in 1..Len(t_aux.encodings) : DataAtNodeOk(t_aux.encodings[l], x)
Column(t_aux, x) == [index |-> x, rows |-> ColumnOf(t_aux.encodings, x)]

\* column.into_proof(&tree_c)
IntoProof(column, tree) ==
    [column |-> column, inclusion_proof |-> GenProof(tree, column.index)]

\* t_aux.domain_node_at_layer(layer, x)
DomainNodeAtLayer(t_aux, layer, x) == DataAtNode(t_aux.encodings[layer], x)

\* every entry read at the layer of the proof
ParentsDataOneLayer(g, t_aux, layer, challenge) ==
    LET parents == IF layer = 1 THEN BaseParents(g, challenge) ELSE Parents(g, challenge)
    IN [i \in 1..Len(parents) |-> DomainNodeAtLayer(t_aux, layer, parents[i])]

\* the parents data of the encoding proof of a challenge at a layer
ParentsData(g, t_aux, layer, challenge) ==
    IF layer = 1
    THEN LET parents == BaseParents(g, challenge) IN
         [i \in 1..BaseDegree |-> DomainNodeAtLayer(t_aux, layer, parents[i])]
    ELSE LET parents == Parents(g, challenge)
             base_parents_count == BaseDegree
         IN [i \in 1..Degree |->
                IF i - 1 < base_parents_count
                THEN DomainNodeAtLayer(t_aux, layer, parents[i])
                ELSE DomainNodeAtLayer(t_aux, layer - 1, parents[i])]

\* EncodingProof::new(node, parents)
EncodingProof(node, parents) == [node |-> node, parents |-> parents]

\* EncodingProof::create_key: the key derivation over the proof's own data
EncodingProofKey(proof, rid) == FieldMask(CreateKey(rid, proof.node, proof.parents))

\* EncodingProof::verify(replica_id, exp_encoded_node, decoded_node)
EncodingProofVerify(proof, rid, exp_encoded_node, decoded_node) ==
    LET key == EncodingProofKey(proof, rid) IN
    exp_encoded_node = (IF decoded_node # None THEN encode(key, Unwrap(decoded_node)) ELSE key)

\* the layers with the tapering policy never consulted
LayersFromUntapered(tapered, total, layer, challenge_index) ==
    [j \in 1..(total - layer + 1) |-> layer + j - 1]

RECURSIVE LayersFrom(_, _, _, _)
\* the layers from `layer` to `total` a challenge has an encoding proof at
LayersFrom(tapered, total, layer, challenge_index) ==
    IF layer > total THEN <<>>
    ELSE (IF IncludeChallengeAtLayer(tapered, total, layer, challenge_index)
          THEN <<layer>> ELSE <<>>)
         \o LayersFrom(tapered, total, layer + 1, challenge_index)

\* the node an encoding proof is checked against, and the decoded node
EncodedNode(total, layer, c_x, comm_r_last_proof) ==
    IF layer = total THEN comm_r_last_proof.leaf ELSE c_x.column.rows[layer]
DecodedNode(total, layer, comm_d_proof) ==
    IF layer = total THEN Some(comm_d_proof.leaf) ELSE None

\* assert!(proof.verify(..), "Invalid encoding proof generated")
SelfCheckSkipped(proof, rid, exp_encoded_node, decoded_node) == TRUE
SelfCheck(proof, rid, exp_encoded_node, decoded_node) ==
    AssertHolds(EncodingProofVerify(proof, rid, exp_encoded_node, decoded_node))

\* assert!(challenge < graph.size()); assert!(challenge > 0)
ChallengeAsserts(challenge, graph_size) ==
    AssertHolds(challenge < graph_size) /\ AssertHolds(challenge > 0)

\* what a failed challenge assertion makes of the closure: a panic
ChallengeFailureAsError == [status |-> "err", built |-> <<>>]
ChallengeFailure == [status |-> "panic", built |-> <<>>]

\* tree.gen_proof(i) is defined for the leaves of the tree
GenProofOk(tree, i) == i >= 0 /\ i < Len(tree.leafs)

RECURSIVE FirstFailing(_, _)
\* the first position from j of a sequence of checks that failed, or 0
FirstFailing(checks, j) ==
    IF j > Len(checks) THEN 0
    ELSE IF ~checks[j] THEN j ELSE FirstFailing(checks, j + 1)

\* get_drg_parents_columns(x) and get_exp_parents_columns(x): the columns of
\* the base parents and of the expander parents, in the graph's order
GetExpParentsColumnsOfBase(g, t_aux, x) ==
    [i \in 1..Len(BaseParents(g, x)) |-> Column(t_aux, BaseParents(g, x)[i])]
get_drg_parents_columns(g, t_aux, x) ==
    [i \in 1..Len(BaseParents(g, x)) |-> Column(t_aux, BaseParents(g, x)[i])]
get_exp_parents_columns(g, t_aux, x) ==
    [i \in 1..Len(ExpandedParents(g, x)) |-> Column(t_aux, ExpandedParents(g, x)[i])]

\* the body of the closure of one challenge: [status, built, proof]
ProveChallengeBody(g, rid, t_aux, total, tapered, challenge, challenge_index) ==
    IF ~ChallengeAsserts(challenge, g.size) THEN ChallengeFailure
    ELSE IF ~GenProofOk(t_aux.tree_d, challenge) THEN [status |-> "panic", built |-> <<>>]
    ELSE IF \E i \in 1..Degree : ~ColumnOk(t_aux, Parents(g, challenge)[i])
    THEN [status |-> "err", built |-> <<>>]
    ELSE
    LET comm_d_proof == GenProof(t_aux.tree_d, challenge)
        c_x == IntoProof(Column(t_aux, challenge), t_aux.tree_c)
        drg == get_drg_parents_columns(g, t_aux, challenge)
        exp == get_exp_parents_columns(g, t_aux, challenge)
        rpc == [c_x |-> c_x,
                drg_parents |-> [i \in 1..Len(drg) |-> IntoProof(drg[i], t_aux.tree_c)],
                exp_parents |-> [i \in 1..Len(exp) |-> IntoProof(exp[i], t_aux.tree_c)]]
        comm_r_last_proof == GenProof(t_aux.tree_r_last, challenge)
        included == LayersFrom(tapered, total, 1, challenge_index)
        encoding_proofs ==
            [j \in 1..Len(included) |->
                EncodingProof(challenge, ParentsData(g, t_aux, included[j], challenge))]
        checks ==
            [j \in 1..Len(included) |->
                SelfCheck(encoding_proofs[j], rid,
                          EncodedNode(total, included[j], c_x, comm_r_last_proof),
                          DecodedNode(total, included[j], comm_d_proof))]
        failed == FirstFailing(checks, 1)
        built_proofs ==
            [j \in 1..(IF failed = 0 THEN Len(included) ELSE failed) |->
                [layer |-> included[j], proof |-> encoding_proofs[j]]]
    IN IF failed # 0
       THEN [status |-> "panic", built |-> built_proofs]
       ELSE [status |-> "ok",
             built |-> built_proofs,
             challenge |-> challenge,
             challenge_index |-> challenge_index,
             proof |-> [comm_d_proofs |-> comm_d_proof,
                        replica_column_proofs |-> rpc,
                        comm_r_last_proof |-> comm_r_last_proof,
                        encoding_proofs |-> encoding_proofs]]

\* the call of prove over the result of replicate, with the public inputs'
\* seed and the tapering of the layer challenges
ProveCall ==
    /\ prv_pc = "idle"
    /\ ext_pc = "idle"
    /\ rep_pc = "done" /\ rep_result.status = "ok"
    /\ chal_seed' \in 0..MaxChalSeed
    /\ taper' \in BOOLEAN
    /\ prv_pc' = "run"
    /\ prv_k' = 0 /\ prv_idx' = 0
    /\ proofs' = [k \in 1..PartitionCount |-> <<>>]
    /\ UNCHANGED <<prv_result, ver_result, built>>
    /\ UNCHANGED <<inputs, pgvars, gpuvars, sdrvars, tfvars, data, glvars, repvars, extvars>>

\* what the partition comes to when one more closure fails: a panic
\* outlives an error value
Failure(result, status) ==
    IF result.status = "panic" \/ status = "panic"
    THEN [status |-> "panic"] ELSE [status |-> "err"]

\* the closure of one challenge of one partition; the closures of a partition
\* are run by a parallel iterator, which after a failure may still run the
\* remaining ones before the failure reaches the caller
ProveChallenge ==
    /\ prv_pc = "run"
    /\ prv_k < PartitionCount
    /\ LET challenges == AllChallenges(chal_fault, replica_id, rep_result.tau.comm_r,
                                       chal_seed, graph.size, prv_k)
           got == ProveChallengeBody(graph, replica_id, rep_result.t_aux, layers, taper,
                                     challenges[prv_idx + 1], prv_idx)
       IN /\ built' = got.built
          /\ IF got.status = "ok" /\ prv_result = NoResult
             THEN /\ proofs' = [proofs EXCEPT ![prv_k + 1] =
                         Append(@, [challenge |-> got.challenge,
                                    challenge_index |-> got.challenge_index,
                                    proof |-> got.proof])]
                  /\ IF prv_idx + 1 < ChallengeCount
                     THEN prv_idx' = prv_idx + 1 /\ UNCHANGED <<prv_k, prv_pc, prv_result>>
                     ELSE IF prv_k + 1 < PartitionCount
                     THEN /\ prv_idx' = 0 /\ prv_k' = prv_k + 1
                          /\ UNCHANGED <<prv_pc, prv_result>>
                     ELSE /\ prv_pc' = "done"
                          /\ prv_result' = [status |-> "ok"]
                          /\ UNCHANGED <<prv_idx, prv_k>>
             ELSE /\ prv_result' = IF got.status = "ok" THEN prv_result
                                   ELSE Failure(prv_result, got.status)
                  /\ proofs' = <<>>
                  /\ UNCHANGED prv_k
                  /\ \E runs_next \in BOOLEAN :
                        IF runs_next /\ prv_idx + 1 < ChallengeCount
                        THEN prv_idx' = prv_idx + 1 /\ UNCHANGED prv_pc
                        ELSE prv_pc' = "done" /\ UNCHANGED prv_idx
    /\ UNCHANGED <<chal_seed, taper, ver_result>>
    /\ UNCHANGED <<inputs, pgvars, gpuvars, sdrvars, tfvars, data, glvars, repvars, extvars>>

\* the verifier's check of one opened column against comm_c
ColumnProofVerify(column_proof, x, comm_c) ==
    /\ column_proof.column.index = x
    /\ ProofValidates(column_proof.inclusion_proof, x, comm_c)
    /\ column_proof.inclusion_proof.leaf = HashColumn(column_proof.column.rows)

\* the verifier's check of the proof of one challenge
VerifyProof(g, rid, tau, total, tapered, challenge, challenge_index, proof) ==
    LET rpc == proof.replica_column_proofs
        comm_c == rpc.c_x.inclusion_proof.root
        comm_r_last == proof.comm_r_last_proof.root
        drg == BaseParents(g, challenge)
        exp == ExpandedParents(g, challenge)
        included == LayersFrom(tapered, total, 1, challenge_index)
    IN /\ challenge > 0 /\ challenge < g.size
       /\ hash2(comm_c, comm_r_last) = tau.comm_r
       /\ ProofValidates(proof.comm_d_proofs, challenge, tau.comm_d)
       /\ ColumnProofVerify(rpc.c_x, challenge, comm_c)
       /\ Len(rpc.drg_parents) = Len(drg)
       /\ \A i \in 1..Len(drg) : ColumnProofVerify(rpc.drg_parents[i], drg[i], comm_c)
       /\ Len(rpc.exp_parents) = Len(exp)
       /\ \A i \in 1..Len(exp) : ColumnProofVerify(rpc.exp_parents[i], exp[i], comm_c)
       /\ ProofValidates(proof.comm_r_last_proof, challenge, comm_r_last)
       /\ Len(proof.encoding_proofs) = Len(included)
       /\ \A j \in 1..Len(included) :
             /\ proof.encoding_proofs[j].node = challenge
             /\ EncodingProofVerify(proof.encoding_proofs[j], rid,
                    EncodedNode(total, included[j], rpc.c_x, proof.comm_r_last_proof),
                    DecodedNode(total, included[j], proof.comm_d_proofs))

\* verify_all_partitions(pub_inputs, partition_proofs)
VerifyAllPartitions(g, rid, tau, seed, fault, total, tapered, partition_proofs) ==
    /\ Len(partition_proofs) = PartitionCount
    /\ \A k \in 1..PartitionCount :
          LET challenges == AllChallenges(fault, rid, tau.comm_r, seed, g.size, k - 1) IN
          /\ Len(partition_proofs[k]) = Len(challenges)
          /\ \A j \in 1..Len(challenges) :
                VerifyProof(g, rid, tau, total, tapered, challenges[j], j - 1,
                            partition_proofs[k][j].proof)

\* the verifier run on what prove returned, with the same public inputs
Verify ==
    /\ prv_pc = "done"
    /\ prv_result.status = "ok"
    /\ ver_result = NoResult
    /\ ver_result' = [status |-> "ok",
                      valid |-> VerifyAllPartitions(graph, replica_id, rep_result.tau,
                                    chal_seed, chal_fault, layers, taper, proofs)]
    /\ UNCHANGED <<chal_seed, taper, prv_pc, prv_k, prv_idx, proofs, prv_result, built>>
    /\ UNCHANGED <<inputs, pgvars, gpuvars, sdrvars, tfvars, data, glvars, repvars, extvars>>

(***************************************************************************)
(* create_label and create_label_exp, and the loop that calls them for     *)
(* every node of every layer.                                              *)
(***************************************************************************)
\* the length of the buffer the node id is written to
LabelBufferLen == 32

\* buffer[..8].copy_from_slice(&(node as u64).to_be_bytes())
NodeBufferLittleEndian(node) ==
    [i \in 1..LabelBufferLen |-> IF i <= IndexBytes THEN ToLeBytes(node)[i] ELSE 0]
NodeBuffer(node) ==
    [i \in 1..LabelBufferLen |-> IF i <= IndexBytes THEN ToBeBytes(node)[i] ELSE 0]

\* hasher.input(&[replica_id, &buffer[..]])
LabelHasher(rid, node) == Sha256Input(Sha256New, <<rid>> \o NodeBuffer(node))

\* the labels copy_parents_data and copy_parents_data_exp feed the hasher
CopiedParents(g, node, labels) ==
    LET parents == Parents(g, node) IN
    [i \in 1..BaseDegree |-> DataAtNode(labels, parents[i])]
CopiedParentsExp(g, node, labels, exp_data) ==
    LET parents == Parents(g, node) IN
    CopiedParents(g, node, labels)
    \o [i \in 1..(Degree - BaseDegree) |-> DataAtNode(exp_data, parents[BaseDegree + i])]

\* graph.copy_parents_data(node, layer_labels, hasher): the base parents'
\* labels are fed to the hasher, which is finished
copy_parents_data(g, node, labels, hasher) ==
    Sha256Finish(Sha256Input(hasher, CopiedParents(g, node, labels)))

\* graph.copy_parents_data_exp(node, layer_labels, exp_parents_data, hasher)
copy_parents_data_exp(g, node, labels, exp_data, hasher) ==
    Sha256Finish(Sha256Input(hasher, CopiedParentsExp(g, node, labels, exp_data)))

\* what a call for a node of a layer feeds its hasher
LabelFed(g, layer, node, labels, exp_data) ==
    IF node = 0 THEN <<>>
    ELSE IF layer = 1 THEN CopiedParents(g, node, labels)
    ELSE CopiedParentsExp(g, node, labels, exp_data)

\* layer_labels after create_label(graph, replica_id, layer_labels, node)
create_label(g, rid, labels, node) ==
    LET hasher == LabelHasher(rid, node)
        hash == IF node > 0 THEN copy_parents_data(g, node, labels, hasher)
                ELSE Sha256Finish(hasher)
        end == DataAtNodeOffset(node) + NODE_SIZE
    IN [labels EXCEPT ![end] = FieldMask(hash)]

\* layer_labels after create_label_exp(graph, replica_id, exp_parents_data,
\* layer_labels, node)
create_label_exp(g, rid, exp_data, labels, node) ==
    LET hasher == LabelHasher(rid, node)
        hash == IF node > 0 THEN copy_parents_data_exp(g, node, labels, exp_data, hasher)
                ELSE Sha256Finish(hasher)
        end == DataAtNodeOffset(node) + NODE_SIZE
    IN [labels EXCEPT ![end] = FieldMask(hash)]

\* every slice the call takes of its buffers lies in them
LabelReadsInRange(g, layer, node, labels, exp_data) ==
    LET parents == Parents(g, node) IN
    \/ node = 0
    \/ /\ \A i \in 1..BaseDegree : DataAtNodeOk(labels, parents[i])
       /\ layer > 1 =>
             \A i \in (BaseDegree + 1)..Degree : DataAtNodeOk(exp_data, parents[i])

\* the labeling loop is entered: two zeroed buffers
LabelsCall ==
    /\ sdr_pc = "idle"
    /\ rep_pc = "idle"
    /\ ext_pc = "idle"
    /\ sdr_pc' = "run"
    /\ sdr_layer' = 1
    /\ sdr_node' = 0
    /\ layer_labels' = ZeroBuffer(graph.size * NODE_SIZE)
    /\ exp_labels' = ZeroBuffer(graph.size * NODE_SIZE)
    /\ sdr_layers' = <<>>
    /\ sdr_hashed' = NoHashed
    /\ UNCHANGED <<inputs, pgvars, gpuvars, tfvars, data, glvars, repvars, extvars, prvvars>>

\* one call: create_label in layer 1, create_label_exp in the others
LabelsNode ==
    /\ sdr_pc = "run"
    /\ sdr_node < graph.size
    /\ IF LabelReadsInRange(graph, sdr_layer, sdr_node, layer_labels, exp_labels)
       THEN /\ layer_labels' =
                  IF sdr_layer = 1
                  THEN create_label(graph, replica_id, layer_labels, sdr_node)
                  ELSE create_label_exp(graph, replica_id, exp_labels, layer_labels,
                                        sdr_node)
            /\ sdr_hashed' =
                  LET fed == LabelFed(graph, sdr_layer, sdr_node, layer_labels, exp_labels)
                  IN [layer |-> sdr_layer, node |-> sdr_node,
                      input |-> <<replica_id>> \o NodeBuffer(sdr_node) \o fed,
                      parents |-> fed]
            /\ sdr_node' = sdr_node + 1
            /\ UNCHANGED sdr_pc
       ELSE /\ sdr_pc' = "panic"
            /\ UNCHANGED <<layer_labels, sdr_node, sdr_hashed>>
    /\ UNCHANGED <<sdr_layer, exp_labels, sdr_layers>>
    /\ UNCHANGED <<inputs, pgvars, gpuvars, tfvars, data, glvars, repvars, extvars, prvvars>>

\* the end of a layer: the layer is kept and the two buffers are swapped
LabelsEndLayer ==
    /\ sdr_pc = "run"
    /\ sdr_node = graph.size
    /\ sdr_layers' = Append(sdr_layers, layer_labels)
    /\ UNCHANGED sdr_hashed
    /\ IF sdr_layer = layers
       THEN sdr_pc' = "done" /\ UNCHANGED <<sdr_layer, sdr_node, layer_labels, exp_labels>>
       ELSE /\ sdr_layer' = sdr_layer + 1
            /\ sdr_node' = 0
            /\ layer_labels' = exp_labels
            /\ exp_labels' = layer_labels
            /\ UNCHANGED sdr_pc
    /\ UNCHANGED <<inputs, pgvars, gpuvars, tfvars, data, glvars, repvars, extvars, prvvars>>

(***************************************************************************)
(* The per-node transforms of replicate and of extract, applied to any key *)
(* and any node that parses as a field element.                            *)
(***************************************************************************)
FrElements == 0..(FrModulus - 1)

TransformEncode ==
    /\ tf_pc = "idle"
    /\ \E key \in FrElements, node \in FrElements :
          /\ tf_key' = key
          /\ tf_node' = node
          /\ tf_out' = <<EncodeNode(key, node)>>
    /\ tf_pc' = "encoded"
    /\ UNCHANGED <<inputs, pgvars, gpuvars, sdrvars, data, glvars, repvars, extvars, prvvars>>

TransformDecode ==
    /\ tf_pc = "idle"
    /\ \E key \in FrElements, node \in FrElements :
          /\ tf_key' = key
          /\ tf_node' = node
          /\ tf_out' = <<DecodeNode(key, node)>>
    /\ tf_pc' = "decoded"
    /\ UNCHANGED <<inputs, pgvars, gpuvars, sdrvars, data, glvars, repvars, extvars, prvvars>>

TransformDecodeEncoded ==
    /\ tf_pc = "encoded"
    /\ IsFr(tf_out[1])
    /\ tf_out' = Append(tf_out, DecodeNode(tf_key, tf_out[1]))
    /\ tf_pc' = "encoded_decoded"
    /\ UNCHANGED <<tf_key, tf_node>>
    /\ UNCHANGED <<inputs, pgvars, gpuvars, sdrvars, data, glvars, repvars, extvars, prvvars>>

TransformEncodeDecoded ==
    /\ tf_pc = "decoded"
    /\ IsFr(tf_out[1])
    /\ tf_out' = Append(tf_out, EncodeNode(tf_key, tf_out[1]))
    /\ tf_pc' = "decoded_encoded"
    /\ UNCHANGED <<tf_key, tf_node>>
    /\ UNCHANGED <<inputs, pgvars, gpuvars, sdrvars, data, glvars, repvars, extvars, prvvars>>

(***************************************************************************)
(* prefetch_nodes: the pages of three windows of nodes, unlocked and       *)
(* locked.  A map of pages is a function from page addresses to            *)
(* [size, count].                                                          *)
(***************************************************************************)
Max(a, b) == IF a > b THEN a ELSE b
Min(a, b) == IF a < b THEN a ELSE b

\* region::page::floor(address)
PageFloor(address) == address - (address % PageSize)
\* region::page::ceil(address)
PageCeil(address) == ((address + PageSize - 1) \div PageSize) * PageSize
\* region::page::size_from_range(address, size)
SizeFromRange(address, size) == PageCeil((address % PageSize) + Max(size, 1))

\* the pages of the bytes address .. address + size - 1
PagesOfSpan(address, size) ==
    {PageFloor(a) : a \in address..(address + size - 1)}

\* &data[start..end] lies in data
SliceInRange(buf, node) == node * NodeBytes + NodeBytes <= buf.len

\* the pass without the comparison of the sizes
BuildPageKeepingSize(node, buf, pages) ==
    LET start == node * NodeBytes
        ptr == buf.base + start
        addr == PageFloor(ptr)
        size == SizeFromRange(ptr, NodeBytes)
    IN IF addr \in DOMAIN pages
       THEN [pages EXCEPT ![addr] = [size |-> @.size, count |-> @.count \cup {start}]]
       ELSE [a \in DOMAIN pages \cup {addr} |->
                IF a = addr THEN [size |-> size, count |-> {}] ELSE pages[a]]

\* one pass of the loop of build_pages: the page of the node's first byte is
\* inserted, or its size raised and the node's offset counted
BuildPage(node, buf, pages) ==
    LET start == node * NodeBytes
        ptr == buf.base + start
        addr == PageFloor(ptr)
        size == SizeFromRange(ptr, NodeBytes)
    IN IF addr \in DOMAIN pages
       THEN [pages EXCEPT ![addr] = [size |-> Max(@.size, size),
                                      count |-> @.count \cup {start}]]
       ELSE [a \in DOMAIN pages \cup {addr} |->
                IF a = addr THEN [size |-> size, count |-> {}] ELSE pages[a]]

RECURSIVE build_pages(_, _, _)
build_pages(nodes, buf, pages) ==
    IF nodes = <<>> THEN pages
    ELSE build_pages(Tail(nodes), buf, BuildPage(Head(nodes), buf, pages))

compute_pages_inner(layer_buf, exp_buf, parents, node, pages) ==
    LET own == build_pages(<<node>>, layer_buf, pages)
        base == build_pages(SubSeq(parents, 1, BaseDegree), layer_buf, own)
    IN IF exp_buf.len # 0
       THEN build_pages(SubSeq(parents, BaseDegree + 1, Len(parents)), exp_buf, base)
       ELSE base

RECURSIVE compute_pages(_, _, _, _, _, _)
compute_pages(g, layer_buf, exp_buf, start_node, end_node, pages) ==
    IF start_node >= end_node THEN pages
    ELSE compute_pages(g, layer_buf, exp_buf, start_node + 1, end_node,
             compute_pages_inner(layer_buf, exp_buf, Parents(g, start_node),
                                 start_node, pages))

\* every slice build_pages takes for the nodes start_node .. end_node - 1
\* lies in its buffer
ComputePagesInRange(g, layer_buf, exp_buf, start_node, end_node) ==
    \A node \in start_node..(end_node - 1) :
        /\ SliceInRange(layer_buf, node)
        /\ \A i \in 1..BaseDegree : SliceInRange(layer_buf, Parents(g, node)[i])
        /\ exp_buf.len # 0 =>
              \A i \in (BaseDegree + 1)..Degree :
                  SliceInRange(exp_buf, Parents(g, node)[i])

\* the three windows of a call at node with num nodes a window
UnlockWindow(node, num) == [start |-> Max(0, node - num), end |-> node]
LockedWindow(g, node, num) == [start |-> node, end |-> Min(g.size, node + num)]
LockWindow(g, node, num) ==
    [start |-> Min(g.size, node + num),
     end |-> Min(g.size, Min(g.size, node + num) + num)]

\* pages without the addresses of other
RemoveKeys(pages, other) == [a \in DOMAIN pages \ DOMAIN other |-> pages[a]]
\* pages with every entry of other inserted
InsertAll(pages, other) ==
    [a \in DOMAIN pages \cup DOMAIN other |->
        IF a \in DOMAIN other THEN other[a] ELSE pages[a]]

\* the pages prefetch_nodes unlocks and the pages it locks
UnlockPages(g, args) ==
    LET unlock_w == UnlockWindow(args.node, args.num)
        locked_w == LockedWindow(g, args.node, args.num)
        lock_w == LockWindow(g, args.node, args.num)
        unlock_pages == compute_pages(g, args.layer_labels, args.exp_parents_data,
                                      unlock_w.start, unlock_w.end, <<>>)
        locked_pages == compute_pages(g, args.layer_labels, args.exp_parents_data,
                                      locked_w.start, locked_w.end, <<>>)
        lock_pages == compute_pages(g, args.layer_labels, args.exp_parents_data,
                                    lock_w.start, lock_w.end, <<>>)
    IN RemoveKeys(RemoveKeys(unlock_pages, locked_pages), lock_pages)

LockPages(g, args) ==
    LET locked_w == LockedWindow(g, args.node, args.num)
        lock_w == LockWindow(g, args.node, args.num)
        locked_pages == compute_pages(g, args.layer_labels, args.exp_parents_data,
                                      locked_w.start, locked_w.end, <<>>)
        lock_pages == compute_pages(g, args.layer_labels, args.exp_parents_data,
                                    lock_w.start, lock_w.end, <<>>)
    IN IF args.node = 0 THEN InsertAll(lock_pages, locked_pages) ELSE lock_pages

\* the buffers the caller passes: the layer being written, at any offset in
\* its page, and the layer before it, or an empty slice
LayerBuffers(size) ==
    [base : 0..MaxOffset, len : {size * NodeBytes}]
ExpBuffers(size) ==
    [base : {4 * PageSize + off : off \in 0..MaxOffset}, len : {0, size * NodeBytes}]

\* the system call's failure returned with `?`: the call goes on iff the
\* system call succeeded
SyscallSucceededAssumed(ok) == TRUE
SyscallSucceeded(ok) == ok

\* prefetch_nodes(graph, layer_labels, exp_parents_data, node, num) up to the
\* call of munlock
PrefetchCall ==
    /\ pg_pc = "idle"
    /\ \E node \in 0..(graph.size - 1), num \in 1..MaxWindow,
          layer_buf \in LayerBuffers(graph.size), exp_buf \in ExpBuffers(graph.size) :
          LET args == [node |-> node, num |-> num, layer_labels |-> layer_buf,
                       exp_parents_data |-> exp_buf]
          IN /\ pg_args' = args
             /\ IF ComputePagesInRange(graph, layer_buf, exp_buf,
                                       Max(0, node - num),
                                       LockWindow(graph, node, num).end)
                THEN /\ pg_pc' = "munlock"
                     /\ pg_unlock' = UnlockPages(graph, args)
                     /\ pg_lock' = LockPages(graph, args)
                ELSE /\ pg_pc' = "panic"
                     /\ UNCHANGED <<pg_unlock, pg_lock>>
    /\ pg_unlocked' = {} /\ pg_locked' = {} /\ pg_failed' = FALSE
    /\ UNCHANGED pg_result
    /\ UNCHANGED <<inputs, gpuvars, data, glvars, repvars, extvars, prvvars, sdrvars,
                   tfvars>>

\* the lowest address of a map of pages: the first of the ordered map
FirstPage(pages) == CHOOSE a \in DOMAIN pages : \A b \in DOMAIN pages : a <= b

\* munlock(&unlock_pages)?: one pass of its loop, or its return
Munlock ==
    /\ pg_pc = "munlock"
    /\ IF DOMAIN pg_unlock = {}
       THEN /\ pg_pc' = "mlock"
            /\ UNCHANGED <<pg_unlock, pg_unlocked, pg_locked, pg_failed, pg_result>>
       ELSE LET addr == FirstPage(pg_unlock)
                span == PagesOfSpan(addr, pg_unlock[addr].size)
            IN \E ok \in BOOLEAN :
                 /\ pg_unlocked' = IF ok THEN pg_unlocked \cup span ELSE pg_unlocked
                 /\ pg_locked' = IF ok THEN pg_locked \ span ELSE pg_locked
                 /\ pg_failed' = (pg_failed \/ ~ok)
                 /\ IF SyscallSucceeded(ok)
                    THEN /\ pg_unlock' = [a \in DOMAIN pg_unlock \ {addr} |-> pg_unlock[a]]
                         /\ UNCHANGED <<pg_pc, pg_result>>
                    ELSE /\ pg_pc' = "done"
                         /\ pg_result' = [status |-> "err"]
                         /\ UNCHANGED pg_unlock
    /\ UNCHANGED <<pg_args, pg_lock>>
    /\ UNCHANGED <<inputs, gpuvars, data, glvars, repvars, extvars, prvvars, sdrvars,
                   tfvars>>

\* mlock(&lock_pages)?: one pass of its loop, or its return and Ok(())
Mlock ==
    /\ pg_pc = "mlock"
    /\ IF DOMAIN pg_lock = {}
       THEN /\ pg_pc' = "done"
            /\ pg_result' = [status |-> "ok"]
            /\ UNCHANGED <<pg_lock, pg_unlocked, pg_locked, pg_failed>>
       ELSE LET addr == FirstPage(pg_lock)
                span == PagesOfSpan(addr, pg_lock[addr].size)
            IN \E ok \in BOOLEAN :
                 /\ pg_locked' = IF ok THEN pg_locked \cup span ELSE pg_locked
                 /\ pg_failed' = (pg_failed \/ ~ok)
                 /\ IF SyscallSucceeded(ok)
                    THEN /\ pg_lock' = [a \in DOMAIN pg_lock \ {addr} |-> pg_lock[a]]
                         /\ UNCHANGED <<pg_pc, pg_result>>
                    ELSE /\ pg_pc' = "done"
                         /\ pg_result' = [status |-> "err"]
                         /\ UNCHANGED pg_lock
                 /\ UNCHANGED pg_unlocked
    /\ UNCHANGED <<pg_args, pg_unlock>>
    /\ UNCHANGED <<inputs, gpuvars, data, glvars, repvars, extvars, prvvars, sdrvars,
                   tfvars>>

\* the calls of prefetch_nodes within one layer: the first at node 0 with a
\* window and the layer's buffers, each later one after the Ok(()) of the one
\* before, at the node one window further, with the same window and buffers;
\* what the calls before locked stays locked
PrefetchWindowCall ==
    /\ \/ pg_pc = "idle"
       \/ /\ pg_pc = "done"
          /\ pg_result.status = "ok"
          /\ pg_args.node + pg_args.num < graph.size
    /\ \E num \in 1..MaxWindow,
          layer_buf \in LayerBuffers(graph.size), exp_buf \in ExpBuffers(graph.size) :
          LET args == IF pg_pc = "idle"
                      THEN [node |-> 0, num |-> num, layer_labels |-> layer_buf,
                            exp_parents_data |-> exp_buf]
                      ELSE [pg_args EXCEPT !.node = @ + pg_args.num]
          IN /\ pg_args' = args
             /\ IF ComputePagesInRange(graph, args.layer_labels, args.exp_parents_data,
                                       Max(0, args.node - args.num),
                                       LockWindow(graph, args.node, args.num).end)
                THEN /\ pg_pc' = "munlock"
                     /\ pg_unlock' = UnlockPages(graph, args)
                     /\ pg_lock' = LockPages(graph, args)
                ELSE /\ pg_pc' = "panic"
                     /\ UNCHANGED <<pg_unlock, pg_lock>>
    /\ pg_unlocked' = {}
    /\ UNCHANGED <<pg_locked, pg_failed, pg_result>>
    /\ UNCHANGED <<inputs, gpuvars, data, glvars, repvars, extvars, prvvars, sdrvars,
                   tfvars>>

\* build_pages(nodes, data, pages) on the one map, as compute_pages_inner
\* calls it: for a node, or for the base parents of a node
BuildPagesCall ==
    /\ bp_calls < MaxCalls
    /\ \E node \in 0..(graph.size - 1), buf \in LayerBuffers(graph.size),
          of_parents \in BOOLEAN :
          LET nodes == IF of_parents THEN BaseParents(graph, node) ELSE <<node>>
          IN /\ bp_pages' = build_pages(nodes, buf, bp_pages)
             /\ bp_seen' = bp_seen \cup
                   {[address |-> buf.base + nodes[i] * NodeBytes, len |-> NodeBytes] :
                       i \in 1..Len(nodes)}
    /\ bp_calls' = bp_calls + 1
    /\ UNCHANGED <<gpu_pc, gpu_devices, gpu_env, bus_ids, gpu_result>>
    /\ UNCHANGED <<inputs, pgvars, data, glvars, repvars, extvars, prvvars, sdrvars,
                   tfvars>>

InitBuildPages ==
    /\ graph \in {g \in ValidGraphs : g.size = MaxNodes}
    /\ chal_fault = NoChalFault
    /\ replica_id = RidOf(0)
    /\ layers = 1
    /\ data = <<>> /\ data_tree = None /\ orig = <<>>
    /\ InitFrames /\ thread_faults = FALSE

\* the graph of a call of prefetch_nodes
InitPages ==
    /\ graph \in ValidGraphs
    /\ chal_fault = NoChalFault
    /\ replica_id = RidOf(0)
    /\ layers = 1
    /\ data = <<>> /\ data_tree = None /\ orig = <<>>
    /\ InitFrames /\ thread_faults = FALSE

NextPages ==
    \/ PrefetchCall
    \/ Munlock
    \/ Mlock

NextWindows ==
    \/ PrefetchWindowCall
    \/ Munlock
    \/ Mlock

(***************************************************************************)
(* get_gpu_index: the Nvidia devices are enumerated, their bus ids sorted  *)
(* and deduplicated, and the one at the index named by P2_GPU_INDEX is     *)
(* returned.                                                               *)
(***************************************************************************)
\* what Device::by_brand may return: no list, or a list of devices, each
\* with a bus id or without one
BusIds == 1..MaxBusId
DeviceLists ==
    UNION {[1..n -> {None} \cup {Some(b) : b \in BusIds}] : n \in 0..MaxDevices}
Enumerations == {None} \cup {Some(l) : l \in DeviceLists}

\* what std::env::var("P2_GPU_INDEX") may return: unset, or a string
EnvChars == {"0", "1", "2", "+", "-", "x"}
EnvValues == {None} \cup {Some(v) : v \in UNION {[1..n -> EnvChars] : n \in 0..MaxEnvLen}}

\* bus_ids.sort_unstable()
NotSorted(s) == s
RECURSIVE SortUnstable(_)
SortUnstable(s) ==
    IF s = <<>> THEN <<>>
    ELSE LET i == CHOOSE i \in 1..Len(s) : \A j \in 1..Len(s) : s[i] <= s[j]
             rest == [k \in 1..(Len(s) - 1) |-> IF k < i THEN s[k] ELSE s[k + 1]]
         IN <<s[i]>> \o SortUnstable(rest)

\* bus_ids.dedup(): of consecutive equal elements the first is kept
RECURSIVE Dedup(_)
Dedup(s) ==
    IF Len(s) < 2 THEN s
    ELSE IF s[1] = s[2] THEN Dedup(Tail(s))
    ELSE <<s[1]>> \o Dedup(Tail(s))

\* get_all_nvidia_bus_ids(): None when by_brand gives no list or a device
\* has no bus id
get_all_nvidia_bus_ids(devices) ==
    IF devices = None THEN None
    ELSE LET devs == Unwrap(devices) IN
         IF \E i \in 1..Len(devs) : devs[i] = None THEN None
         ELSE Some(Dedup(SortUnstable([i \in 1..Len(devs) |-> Unwrap(devs[i])])))

\* the value of a string of decimal digits
DigitValue(c) == CASE c = "0" -> 0 [] c = "1" -> 1 [] c = "2" -> 2
RECURSIVE DigitsValue(_)
DigitsValue(s) ==
    IF s = <<>> THEN 0
    ELSE 10 * DigitsValue(SubSeq(s, 1, Len(s) - 1)) + DigitValue(s[Len(s)])

\* v.parse::<usize>(): an optional plus sign, then one decimal digit or more
ParseUsize(v) ==
    LET digits == IF v # <<>> /\ v[1] = "+" THEN Tail(v) ELSE v IN
    IF digits # <<>> /\ \A i \in 1..Len(digits) : digits[i] \in {"0", "1", "2"}
    THEN Some(DigitsValue(digits))
    ELSE None

\* env::var(..).or(Ok("0")).and_then(parse, or Ok(0) after the log).unwrap()
SelectedIndex(env) ==
    LET v == IF env = None THEN <<"0">> ELSE Unwrap(env)
        parsed == ParseUsize(v)
    IN IF parsed = None THEN 0 ELSE Unwrap(parsed)

\* a call of get_gpu_index on a machine and an environment
GpuCall ==
    /\ gpu_pc = "idle"
    /\ gpu_devices' \in Enumerations
    /\ gpu_env' \in EnvValues
    /\ gpu_pc' = "enumerate"
    /\ UNCHANGED <<bus_ids, gpu_result>>
    /\ UNCHANGED <<bp_pages, bp_seen, bp_calls>>
    /\ UNCHANGED <<inputs, pgvars, data, glvars, repvars, extvars, prvvars, sdrvars,
                   tfvars>>

\* let bus_ids = match get_all_nvidia_bus_ids() { Some(b) => b, None => vec![] }
GetAllNvidiaBusIds ==
    /\ gpu_pc = "enumerate"
    /\ bus_ids' = (LET ids == get_all_nvidia_bus_ids(gpu_devices) IN
                   IF ids = None THEN <<>> ELSE Unwrap(ids))
    /\ gpu_pc' = "select"
    /\ UNCHANGED <<gpu_devices, gpu_env, gpu_result>>
    /\ UNCHANGED <<bp_pages, bp_seen, bp_calls>>
    /\ UNCHANGED <<inputs, pgvars, data, glvars, repvars, extvars, prvvars, sdrvars,
                   tfvars>>

\* the rest of get_gpu_index: the error of an empty list, or bus_ids[index],
\* which panics past the end of the list
GetGpuIndex ==
    /\ gpu_pc = "select"
    /\ gpu_result' =
          IF bus_ids = <<>> THEN [status |-> "err"]
          ELSE LET index == SelectedIndex(gpu_env) IN
               IF index < Len(bus_ids)
               THEN [status |-> "ok", value |-> bus_ids[index + 1]]
               ELSE [status |-> "panic"]
    /\ gpu_pc' = "done"
    /\ UNCHANGED <<gpu_devices, gpu_env, bus_ids>>
    /\ UNCHANGED <<bp_pages, bp_seen, bp_calls>>
    /\ UNCHANGED <<inputs, pgvars, data, glvars, repvars, extvars, prvvars, sdrvars,
                   tfvars>>

InitGpu ==
    /\ graph = [size |-> 2, seed |-> 0, fault |-> NoFault]
    /\ chal_fault = NoChalFault
    /\ replica_id = RidOf(0)
    /\ layers = 1
    /\ data = <<>> /\ data_tree = None /\ orig = <<>>
    /\ InitFrames /\ thread_faults = FALSE

NextGpu ==
    \/ GpuCall
    \/ GetAllNvidiaBusIds
    \/ GetGpuIndex

InitTransforms ==
    /\ graph = [size |-> 2, seed |-> 0, fault |-> NoFault]
    /\ chal_fault = NoChalFault
    /\ replica_id = RidOf(0)
    /\ layers = 1
    /\ data = <<>> /\ data_tree = None /\ orig = <<>>
    /\ InitFrames /\ thread_faults = FALSE

NextTransforms ==
    \/ TransformEncode
    \/ TransformDecode
    \/ TransformDecodeEncoded
    \/ TransformEncodeDecoded

Next ==
    \/ GenerateLayersNode
    \/ GenerateLayersEndLayer
    \/ ReplicateCall
    \/ ReplicateTreeD
    \/ ReplicateJoinLayers
    \/ \E x \in 0..(MaxNodes - 1) : ReplicateEncodeNode(x)
    \/ ReplicateEncoded
    \/ TreeRLastThread
    \/ \E w \in Workers : ColumnWorker(w)
    \/ ReplicateJoinColumns
    \/ ReplicateReturn
    \/ ReplicateUnwind
    \/ ExtractCall
    \/ ExtractLayers
    \/ ExtractDecodeNode
    \/ ProveCall
    \/ ProveChallenge
    \/ Verify
    \/ LabelsCall
    \/ LabelsNode
    \/ LabelsEndLayer

\* replicate, extract, prove and the labeling loop in the environment the
\* graph generator and the challenge derivation make
Spec == Init /\ [][Next]_vars

\* the same in an environment that keeps no promise
SpecOpenEnv == InitOpenEnv /\ [][Next]_vars

\* the per-node transforms alone
SpecTransforms == InitTransforms /\ [][NextTransforms]_vars

\* prefetch_nodes alone
SpecPages == InitPages /\ [][NextPages]_vars

\* the calls of prefetch_nodes along one layer
SpecWindows == InitPages /\ [][NextWindows]_vars
SpecGpu == InitGpu /\ [][NextGpu]_vars
SpecBuildPages == InitBuildPages /\ [][BuildPagesCall]_vars

\* replicate and what follows it where the stores and the tree builder may
\* fail the threads, over data of field elements
InitThreadFaults ==
    /\ graph \in ValidGraphs
    /\ chal_fault = NoChalFault
    /\ replica_id = RidOf(0)
    /\ layers \in 1..MaxLayers
    /\ data = DataOf(graph.size, graph.seed, graph.size)
    /\ data_tree = None
    /\ orig = data
    /\ InitFrames
    /\ thread_faults = TRUE

SpecThreadFaults == InitThreadFaults /\ [][Next]_vars

\* the threads of replicate under a fair scheduler: the thread that called
\* it (with the parallel loop it runs), the label engine, the thread of
\* TreeR_last, and each column worker
ReplicateMainThread ==
    \/ ReplicateTreeD
    \/ ReplicateJoinLayers
    \/ \E x \in 0..(MaxNodes - 1) : ReplicateEncodeNode(x)
    \/ ReplicateEncoded
    \/ ReplicateJoinColumns
    \/ ReplicateReturn
    \/ ReplicateUnwind
LabelEngineThread == GenerateLayersNode \/ GenerateLayersEndLayer
FairScheduling ==
    /\ WF_vars(ReplicateMainThread)
    /\ WF_vars(LabelEngineThread)
    /\ WF_vars(TreeRLastThread)
    /\ \A w \in Workers : WF_vars(ColumnWorker(w))
SpecFairThreads == InitThreadFaults /\ [][Next]_vars /\ FairScheduling

\* extract_and_invert_transform_layers on a buffer the caller chose freely:
\* one chunk shorter than the graph, as long, or one chunk longer, with a
\* chunk that does not parse at node 1, at node size, or nowhere
InitExtractFrame ==
    /\ graph \in ValidGraphs
    /\ chal_fault = NoChalFault
    /\ replica_id = RidOf(0)
    /\ layers \in 1..MaxLayers
    /\ \E extra \in {-1, 0, 1}, bad \in {1, graph.size, graph.size + 1} :
           data = DataOf(graph.size + extra, graph.seed, bad)
    /\ data_tree = None
    /\ orig = data
    /\ InitFrames
    /\ thread_faults = FALSE

NextExtractFrame ==
    \/ ExtractCall
    \/ GenerateLayersNode
    \/ GenerateLayersEndLayer
    \/ ExtractLayers
    \/ ExtractDecodeNode

SpecExtractFrame == InitExtractFrame /\ [][NextExtractFrame]_vars

(***************************************************************************)
(* Properties.                                                             *)
(***************************************************************************)
\* replicate returned its result, and extract then returned Ok(())
ReplicatedThenExtracted ==
    /\ rep_pc = "done" /\ rep_result.status = "ok"
    /\ ext_pc = "done" /\ ext_result.status = "ok"

\* C1: after replicate over a buffer of N nodes that are field elements and
\* extract over the replica, with the same graph, layers and replica id,
\* the buffer equals the original data, node for node.
RoundTrip ==
    ReplicatedThenExtracted =>
        /\ Len(data) = graph.size * NODE_SIZE
        /\ \A x \in 0..(graph.size - 1) : DataAtNode(data, x) = DataAtNode(orig, x)

\* the replica differed from the data in every node, and extract restored it
RoundTripReached ==
    /\ ReplicatedThenExtracted
    /\ layers > 1
    /\ \A x \in 0..(graph.size - 1) :
          /\ DataAtNode(rep_result.t_aux.tree_r_last.leafs, x) # DataAtNode(orig, x)
          /\ DataAtNode(data, x) = DataAtNode(orig, x)

\* the top two bits of the last byte of a label
TopTwoBits(label) == (label \div (FieldMaskBits + 1)) % 4

LabelsMasked(buffer) == \A i \in 1..Len(buffer) : TopTwoBits(buffer[i]) = 0

\* C2: every label stored by generate_layers, create_label or
\* create_label_exp, for every node (node 0 too) of every layer, has the top
\* two bits of its last byte zero, wherever it is held afterwards.
FieldMasking ==
    /\ LabelsMasked(encoding)
    /\ exp_parents_data # None => LabelsMasked(Unwrap(exp_parents_data))
    /\ \A l \in 1..Len(encodings) : LabelsMasked(encodings[l])
    /\ \A l \in 1..Len(rep_encodings) : LabelsMasked(rep_encodings[l])
    /\ LabelsMasked(layer_labels)
    /\ LabelsMasked(exp_labels)
    /\ \A l \in 1..Len(sdr_layers) : LabelsMasked(sdr_layers[l])

\* generate_layers has just stored the label of a node whose hash had one of
\* the two bits set
FieldMaskingReached ==
    /\ gl_pc = "run" /\ gl_node > 0
    /\ LET hash == CreateKey(replica_id, gl_node - 1,
                       ParentLabels(graph, gl_node - 1, encoding, exp_parents_data))
       IN /\ TopTwoBits(hash) # 0
          /\ DataAtNode(encoding, gl_node - 1) = hash % (FieldMaskBits + 1)

\* C3: when replicate returns successfully, tau.comm_r is the hash of
\* p_aux.comm_c and p_aux.comm_r_last, these are the roots of the returned
\* tree_c and tree_r_last, and tau.comm_d is the root of the returned tree_d.
CommitmentConsistency ==
    (rep_pc = "done" /\ rep_result.status = "ok") =>
        /\ rep_result.tau.comm_r =
               hash2(rep_result.p_aux.comm_c, rep_result.p_aux.comm_r_last)
        /\ rep_result.p_aux.comm_c = rep_result.t_aux.tree_c.root
        /\ rep_result.p_aux.comm_r_last = rep_result.t_aux.tree_r_last.root
        /\ rep_result.tau.comm_d = rep_result.t_aux.tree_d.root

\* replicate returned, with two roots the order of which shows in comm_r
CommitmentConsistencyReached ==
    /\ rep_pc = "done" /\ rep_result.status = "ok"
    /\ hash2(rep_result.p_aux.comm_c, rep_result.p_aux.comm_r_last)
          # hash2(rep_result.p_aux.comm_r_last, rep_result.p_aux.comm_c)

\* the label of a node at a layer in what replicate returned
LabelAt(layer, x) == DataAtNode(rep_result.t_aux.encodings[layer], x)

\* every encoding proof of a returned proof derives the label of its node
EncodingProofsRederive ==
    \A k \in 1..PartitionCount : \A j \in 1..Len(proofs[k]) :
        LET included == LayersFrom(taper, layers, 1, proofs[k][j].challenge_index)
            eps == proofs[k][j].proof.encoding_proofs
        IN /\ Len(eps) = Len(included)
           /\ \A m \in 1..Len(eps) :
                 EncodingProofKey(eps[m], replica_id)
                    = LabelAt(included[m], proofs[k][j].challenge)

\* C4: the proofs prove returns over what replicate returned are accepted
\* by the verifier run with the same public inputs, in every partition and
\* for every challenge, and each of their encoding proofs re-derives the
\* label of the challenged node at its layer.
ProofSelfCheck ==
    /\ ver_result.status = "ok" => ver_result.valid
    /\ (prv_pc = "done" /\ prv_result.status = "ok") => EncodingProofsRederive

\* the verifier accepted proofs of several layers with tapered challenges
ProofSelfCheckReached ==
    /\ ver_result.status = "ok" /\ ver_result.valid
    /\ layers > 1 /\ taper
    /\ EncodingProofsRederive

\* the proofs the closures of prove_layers have emitted
EmittedProofs ==
    UNION {{proofs[k][j] : j \in 1..Len(proofs[k])} : k \in DOMAIN proofs}

\* C5: every challenge c a Proof is emitted for, in any partition, has
\* 0 < c < N, N the size of the graph.
ChallengeValidity ==
    \A p \in EmittedProofs : 0 < p.challenge /\ p.challenge < graph.size

\* a partition's proofs were emitted where a later challenge is 0 or N
ChallengeValidityReached ==
    /\ chal_fault.k = 1
    /\ prv_pc = "run" /\ prv_k = 1
    /\ Len(proofs[1]) = ChallengeCount

\* the closure of a challenge that is 0 or >= N has run
InvalidChallengeAttempted ==
    /\ chal_fault # NoChalFault
    /\ prv_pc \in {"run", "done"}
    /\ prv_k = chal_fault.k
    /\ \/ prv_idx > chal_fault.idx
       \/ prv_idx = chal_fault.idx /\ prv_pc = "done"

\* C6 as stated: proving a challenge that is 0 or >= N fails with an error
\* value returned to the caller of prove, and no Proof is returned.
InvalidChallengeIsError ==
    InvalidChallengeAttempted => (prv_result.status = "err" /\ proofs = <<>>)

\* C6: proving a challenge that is 0 or >= N fails by the panic of the
\* assertion "Invalid challenge", which reaches the caller of prove; prove
\* returns neither a Proof nor an error value.
InvalidChallengePanics ==
    InvalidChallengeAttempted =>
        /\ prv_result.status = "panic"
        /\ proofs = <<>>
        /\ ver_result = NoResult

\* prove has ended on challenge 0, and on challenge N
InvalidChallengePanicsReached ==
    /\ InvalidChallengeAttempted
    /\ prv_pc = "done"
    /\ chal_fault.challenge = 0
    /\ prv_result.status = "panic"

\* C7: in every encoding proof built for a challenge c at a layer l > 1,
\* entry i of the parents data is, for i < d_base, the label at layer l of
\* the i-th parent of graph.parents(c), and for i >= d_base the label at
\* layer l - 1 of the i-th parent.
ParentOrdering ==
    \A j \in 1..Len(built) :
        built[j].layer > 1 =>
            LET c == built[j].proof.node
                parents_data == built[j].proof.parents
            IN /\ Len(parents_data) = Degree
               /\ \A i \in 0..(Degree - 1) :
                     parents_data[i + 1] =
                        LabelAt(IF i < BaseDegree THEN built[j].layer
                                ELSE built[j].layer - 1,
                                Parents(graph, c)[i + 1])

\* a proof was built at a layer > 1 for a challenge with an expander parent
\* whose labels at the two layers differ
ParentOrderingReached ==
    \E j \in 1..Len(built) :
        /\ built[j].layer > 1
        /\ \E i \in (BaseDegree + 1)..Degree :
              LabelAt(built[j].layer, Parents(graph, built[j].proof.node)[i])
                 # LabelAt(built[j].layer - 1, Parents(graph, built[j].proof.node)[i])

\* generate_layers has run in replicate, and again in extract
LabeledTwice ==
    /\ rep_pc = "done" /\ rep_result.status = "ok"
    /\ ext_pc \in {"decode", "done"}
    /\ gl_pc = "ok"

EncoderBijectivity ==
    /\ tf_pc = "encoded_decoded" =>
          tf_out = <<encode(tf_key, tf_node), tf_node>>
    /\ tf_pc = "decoded_encoded" =>
          tf_out = <<decode(tf_key, tf_node), tf_node>>

\* a node was decoded under a key greater than it, and encoded again
EncoderBijectivityReached ==
    /\ tf_pc = "decoded_encoded"
    /\ tf_node < tf_key
    /\ tf_out[2] = tf_node

\* the graph returns for node x a base parent greater than x, or a parent
\* greater than N
InvalidParents(g, x) ==
    \E i \in 1..Degree :
        \/ i <= BaseDegree /\ Parents(g, x)[i] > x
        \/ Parents(g, x)[i] > g.size

\* generate_layers is past node x of some layer
LabelGenerated(x) ==
    /\ gl_pc \in {"run", "ok"}
    /\ gl_layer > 1 \/ gl_node > x

\* C10: when the graph returns, for a node x of label generation, a base
\* parent greater than x or any parent greater than N, label generation
\* fails with an error returned to the caller and hashes no label from
\* that parent.
InvalidGraphRejected ==
    \A x \in 0..(graph.size - 1) :
        InvalidParents(graph, x) =>
            /\ ~LabelGenerated(x)
            /\ gl_pc # "panic"

\* C11 as stated: when an mlock or munlock call fails, prefetch_nodes still
\* returns success.
LockFailureNotSurfaced ==
    (pg_pc = "done" /\ pg_failed) => pg_result.status = "ok"

\* C11: when an mlock or munlock call fails, prefetch_nodes returns the
\* failure to its caller as an error at once, the failing page and the pages
\* after it left as they were; it returns Ok only when no call failed and
\* every page was passed to the system.
LockFailureSurfaces ==
    /\ pg_failed =>
          /\ pg_pc = "done" /\ pg_result.status = "err"
          /\ DOMAIN pg_unlock # {} \/ DOMAIN pg_lock # {}
    /\ (pg_pc = "done" /\ pg_result.status = "ok") =>
          /\ ~pg_failed
          /\ DOMAIN pg_unlock = {} /\ DOMAIN pg_lock = {}

\* a system call of mlock failed after munlock returned and a page was locked
LockFailureSurfacesReached ==
    /\ pg_failed /\ pg_pc = "done"
    /\ pg_locked # {}
    /\ DOMAIN pg_unlock = {} /\ DOMAIN pg_lock # {}

\* the pages that hold a byte of a label the nodes of a window need: their
\* own, their base parents', and their expander parents' in the layer before
NeededPages(g, args, window) ==
    UNION {PagesOfSpan(args.layer_labels.base + node * NodeBytes, NodeBytes)
           \cup UNION {PagesOfSpan(args.layer_labels.base
                                       + Parents(g, node)[i] * NodeBytes, NodeBytes) :
                          i \in 1..BaseDegree}
           \cup (IF args.exp_parents_data.len # 0
                 THEN UNION {PagesOfSpan(args.exp_parents_data.base
                                            + Parents(g, node)[i] * NodeBytes, NodeBytes) :
                               i \in (BaseDegree + 1)..Degree}
                 ELSE {}) :
           node \in window.start..(window.end - 1)}

\* C20: a call of prefetch_nodes at node x with window W unlocks no page
\* that holds a label needed by a node of the next window or of the
\* look-ahead window, neither as a key of the unlock map nor as part of the
\* bytes unlocked from an earlier page address.
PageDeduplication ==
    pg_pc \in {"munlock", "mlock", "done"} =>
        pg_unlocked \cap
            (NeededPages(graph, pg_args,
                         LockedWindow(graph, pg_args.node, pg_args.num))
             \cup NeededPages(graph, pg_args,
                              LockWindow(graph, pg_args.node, pg_args.num))) = {}

\* C12: when replicate returns an error, the caller's data buffer is not
\* left with some nodes encoded and others not: it is as the caller passed it.
NoPartialStateOnError ==
    (rep_pc = "done" /\ rep_result.status = "err") =>
        \A x \in 0..(graph.size - 1) : DataAtNode(data, x) = DataAtNode(orig, x)

\* the 24 zero bytes that follow the node index in the 32-byte buffer of
\* create_label and create_label_exp
IndexPadding == [i \in 1..(LabelBufferLen - IndexBytes) |-> 0]

\* C13 as stated: in create_label and create_label_exp, as in
\* generate_layers, the hash input of a label is the replica id, then the
\* node index x as an 8-byte little-endian integer, then the parent labels.
NodeIndexLittleEndianAlike ==
    /\ gl_hashed # NoHashed =>
          gl_hashed.input = <<replica_id>> \o ToLeBytes(gl_hashed.node) \o gl_hashed.parents
    /\ sdr_hashed # NoHashed =>
          sdr_hashed.input = <<replica_id>> \o ToLeBytes(sdr_hashed.node)
                             \o sdr_hashed.parents

\* C13: the hash input of a label is the replica id, then the node index x,
\* then the parent labels; generate_layers encodes x as an 8-byte
\* little-endian integer, create_label and create_label_exp as an 8-byte
\* big-endian integer at the start of a 32-byte buffer whose other bytes
\* are zero.
NodeIndexEncoding ==
    /\ gl_hashed # NoHashed =>
          gl_hashed.input = <<replica_id>> \o ToLeBytes(gl_hashed.node) \o gl_hashed.parents
    /\ sdr_hashed # NoHashed =>
          sdr_hashed.input = <<replica_id>> \o ToBeBytes(sdr_hashed.node) \o IndexPadding
                             \o sdr_hashed.parents

\* create_label_exp has hashed the label of a node other than 0
NodeIndexEncodingReached ==
    /\ sdr_hashed.layer > 1
    /\ sdr_hashed.node > 0
    /\ Len(sdr_hashed.parents) = Degree

\* the labels of a layer as far as they are written: the stored layer, or
\* the buffer of the pass that is writing it
LayerSoFar(stored, buffer, layer) ==
    IF layer <= Len(stored) THEN stored[layer] ELSE buffer

\* what was fed for a label, against the labels of its layer and the
\* stored layers
SourcesOf(h, stored, buffer) ==
    LET parents == Parents(graph, h.node)
        cur == LayerSoFar(stored, buffer, h.layer)
    IN IF h.node = 0
       THEN h.parents = <<>>
       ELSE /\ Len(h.parents) = (IF h.layer > 1 THEN Degree ELSE BaseDegree)
            /\ \A i \in 1..BaseDegree :
                  /\ parents[i] < h.node
                  /\ h.parents[i] = DataAtNode(cur, parents[i])
            /\ h.layer > 1 =>
                  /\ Len(stored) >= h.layer - 1
                  /\ \A i \in (BaseDegree + 1)..Degree :
                        h.parents[i] = DataAtNode(stored[h.layer - 1], parents[i])

\* C15: node 0 of a layer hashes no parents; for a node x > 0 of layer l the
\* base-parent labels are the labels of nodes before x written in layer l,
\* in graph order, and expander-parent labels are hashed only when l > 1,
\* after the base parents, from the completed layer l-1.
ParentSources ==
    /\ gl_hashed # NoHashed => SourcesOf(gl_hashed, encodings, encoding)
    /\ sdr_hashed # NoHashed => SourcesOf(sdr_hashed, sdr_layers, layer_labels)

\* a node of a layer after the first has hashed an expander parent whose
\* label in the layer being written differs from its label in the layer
\* before
ParentSourcesReached ==
    /\ gl_hashed.layer > 1
    /\ gl_hashed.node > 0
    /\ \E i \in (BaseDegree + 1)..Degree :
          LET p == Parents(graph, gl_hashed.node)[i] IN
          /\ p < gl_hashed.node
          /\ DataAtNode(encodings[gl_hashed.layer - 1], p)
                # DataAtNode(LayerSoFar(encodings, encoding, gl_hashed.layer), p)

\* a step of generate_layers that stores a label
LabelWritten == gl_hashed' # gl_hashed /\ gl_hashed' # NoHashed

\* the node written by a step is node 0 when the pass begins, which it does
\* only after the last node of the pass before, and otherwise the node after
\* the one written last; no other label of the buffer changes
WrittenInOrder ==
    /\ IF gl_hashed = NoHashed
       THEN gl_hashed'.layer = 1 /\ gl_hashed'.node = 0
       ELSE IF gl_hashed'.layer = gl_hashed.layer
       THEN gl_hashed'.node = gl_hashed.node + 1
       ELSE /\ gl_hashed'.layer = gl_hashed.layer + 1
            /\ gl_hashed.node = graph.size - 1
            /\ gl_hashed'.node = 0
    /\ gl_hashed'.node < graph.size
    /\ \A x \in 0..(graph.size - 1) :
          x # gl_hashed'.node => DataAtNode(encoding', x) = DataAtNode(encoding, x)

\* C16: within a layer pass of generate_layers the labels are written in
\* strictly increasing node order, 0, 1, ..., N-1, each node exactly once:
\* every write is of the node after the one written last, the buffer changes
\* at no other node and by no other step of the pass, and a pass ends with
\* node N-1 written.
LabelWriteOrder ==
    /\ [][LabelWritten => WrittenInOrder]_vars
    /\ [][(gl_pc = "run" /\ gl_pc' = "run" /\ encoding' # encoding) => LabelWritten]_vars
    /\ [](gl_pc = "run" =>
            IF gl_node = 0
            THEN gl_hashed = NoHashed \/ gl_hashed.layer = gl_layer - 1
            ELSE gl_hashed.layer = gl_layer /\ gl_hashed.node = gl_node - 1)
    /\ []((gl_pc = "ok" /\ gl_hashed # NoHashed) =>
            gl_hashed.layer = layers /\ gl_hashed.node = graph.size - 1)

\* the second pass has written its last node, of three or more
LabelWriteOrderReached ==
    /\ gl_hashed.layer = 2
    /\ graph.size >= 3
    /\ gl_hashed.node = graph.size - 1

\* C17: layer l of generate_layers writes its first label only after all N
\* labels of layer l-1 are written, snapshotted as the expander source and
\* appended to the stack; when generate_layers succeeds the stack holds
\* exactly L layers, in order, each of N * NODE_SIZE bytes; a stored layer
\* is never modified by later passes.
LayerSequencing ==
    /\ [](gl_pc = "run" =>
            /\ Len(encodings) = gl_layer - 1
            /\ gl_layer > 1 => exp_parents_data = Some(encodings[gl_layer - 1]))
    /\ [](gl_hashed # NoHashed =>
            /\ Len(encodings) >= gl_hashed.layer - 1
            /\ \A l \in 1..Len(encodings) :
                  l < gl_hashed.layer \/ (l = gl_hashed.layer /\ gl_pc # "run")
                  \/ (l = gl_hashed.layer /\ gl_node = 0 /\ gl_layer = l + 1))
    /\ [](gl_pc = "ok" =>
            /\ Len(encodings) = layers
            /\ \A l \in 1..layers : Len(encodings[l]) = graph.size * NODE_SIZE)
    /\ [][gl_pc = "run" =>
            /\ Len(encodings') >= Len(encodings)
            /\ \A l \in 1..Len(encodings) : encodings'[l] = encodings[l]
            /\ Len(encodings') > Len(encodings) =>
                  /\ Len(encodings') = Len(encodings) + 1
                  /\ gl_node = graph.size
                  /\ encodings'[Len(encodings')] = encoding
                  /\ exp_parents_data' = Some(encoding)]_vars

\* the third layer has written a label over a stack of two layers
LayerSequencingReached ==
    /\ gl_hashed.layer = 3
    /\ gl_hashed.node > 0
    /\ Len(encodings) = 2
    /\ encodings[1] # encodings[2]

\* every node of the graph
AllNodes == 0..(graph.size - 1)

\* C18: in replicate, TreeD is built from the data buffer before any node is
\* encoded; encoding starts only after the label engine has produced all L
\* layers; TreeR_last is built only after every node is encoded; TreeC is
\* built only after all four column workers have joined.
ReplicateOrdering ==
    /\ (rep_pc # "idle" /\ enc_done = {}) => data = orig
    /\ (tree_d # None /\ data_tree = None) => Unwrap(tree_d) = build_tree(orig)
    /\ enc_done # {} =>
          /\ tree_d # None
          /\ Len(rep_encodings) = layers
          /\ ext_pc = "idle" => (gl_pc = "ok" /\ rep_encodings = encodings)
    /\ trl_pc # "idle" => (enc_done = AllNodes /\ ~enc_failed)
    /\ tree_r_last # None =>
          /\ enc_done = AllNodes
          /\ \A x \in AllNodes :
                Unwrap(tree_r_last).leafs[x + 1] =
                    EncodeNode(DataAtNode(EncodingAtLastLayer(rep_encodings), x),
                               orig[x + 1])
    /\ tree_c # None =>
          /\ \A w \in Workers : col_iter[w] = ColSliceLen(w)
          /\ Unwrap(tree_c) = build_tree(cs)

\* replicate has built its three trees over a replica that differs from
\* the data
ReplicateOrderingReached ==
    /\ rep_pc = "done"
    /\ rep_result.status = "ok"
    /\ data_tree = None
    /\ tree_c # None /\ tree_r_last # None
    /\ graph.size = MaxNodes
    /\ data # orig

\* the chunks of cs a worker holds, and the chunks it has written
WorkerCells(w) == {ColSliceStart(w) + k : k \in 0..(ColSliceLen(w) - 1)}
WorkerWritten(w) == {ColSliceStart(w) + k : k \in 0..(col_iter[w] - 1)}

\* C19: for every node count N, N not divisible by 4 and N < 4 included,
\* the four column workers write pairwise disjoint regions of cs, every
\* chunk x of 0..N-1 belongs to exactly one worker, the fourth worker's
\* region is 3 * floor(N/4)..N-1, every chunk a worker has written holds
\* column_hash(x), and after the join cs[x] = column_hash(x) for every x.
ColumnPartition ==
    trl_pc # "idle" =>
       /\ \A w1, w2 \in Workers : w1 # w2 => WorkerCells(w1) \cap WorkerCells(w2) = {}
       /\ \A x \in AllNodes : Cardinality({w \in Workers : x \in WorkerCells(w)}) = 1
       /\ WorkerCells("d") = (3 * (graph.size \div 4))..(graph.size - 1)
       /\ \A w \in Workers : \A x \in WorkerWritten(w) :
             DataAtNode(cs, x) = column_hash(rep_encodings, x)
       /\ \A x \in AllNodes :
             (\A w \in Workers : x \notin WorkerWritten(w)) => DataAtNode(cs, x) = 0
       /\ tree_c # None =>
             \A x \in AllNodes : DataAtNode(cs, x) = column_hash(rep_encodings, x)

\* the workers have joined over a node count that 4 does not divide, with
\* two column hashes that differ
ColumnPartitionReached ==
    /\ tree_c # None
    /\ graph.size % 4 # 0
    /\ graph.size >= 2
    /\ \E x, y \in AllNodes : DataAtNode(cs, x) # DataAtNode(cs, y)

\* the bus ids get_gpu_index selects from: those of the devices, when the
\* enumeration gave a list and every device of it has a bus id
EnumeratedBusIds ==
    IF gpu_devices = None \/ \E i \in 1..Len(Unwrap(gpu_devices)) :
                                Unwrap(gpu_devices)[i] = None
    THEN {}
    ELSE {Unwrap(Unwrap(gpu_devices)[i]) : i \in 1..Len(Unwrap(gpu_devices))}

\* the index P2_GPU_INDEX names: 0 when it is unset or does not parse
NamedIndex ==
    IF gpu_env = None \/ ParseUsize(Unwrap(gpu_env)) = None
    THEN 0
    ELSE Unwrap(ParseUsize(Unwrap(gpu_env)))

\* C14: when get_gpu_index has returned and no bus id was enumerated, it
\* returned an error; when bus ids were enumerated, the index used is 0 if
\* P2_GPU_INDEX is unset or does not parse as a non-negative integer and its
\* value otherwise, and when that index lies in the list the call returned
\* the bus id at that index of the sorted list of distinct bus ids.
GpuSelectionDefault ==
    gpu_pc = "done" =>
       /\ EnumeratedBusIds = {} => gpu_result.status = "err"
       /\ (EnumeratedBusIds # {} /\ NamedIndex < Cardinality(EnumeratedBusIds)) =>
             /\ gpu_result.status = "ok"
             /\ gpu_result.value \in EnumeratedBusIds
             /\ Cardinality({b \in EnumeratedBusIds : b < gpu_result.value}) = NamedIndex

\* the call has returned the lowest bus id of two devices enumerated in
\* descending order, P2_GPU_INDEX being set to a string that does not parse
GpuSelectionDefaultReached ==
    /\ gpu_pc = "done"
    /\ gpu_result.status = "ok"
    /\ gpu_env # None
    /\ Unwrap(gpu_env) # <<>>
    /\ ParseUsize(Unwrap(gpu_env)) = None
    /\ Len(Unwrap(gpu_devices)) = 2
    /\ Unwrap(Unwrap(gpu_devices)[1]) > Unwrap(Unwrap(gpu_devices)[2])

\* C28: for every value of P2_GPU_INDEX and every non-empty list of
\* enumerated bus ids, get_gpu_index returns an error or a bus id that is
\* an element of the list; it never indexes the list past its end.
GpuIndexBounds ==
    (gpu_pc = "done" /\ bus_ids # <<>>) =>
       \/ gpu_result.status = "err"
       \/ /\ gpu_result.status = "ok"
          /\ \E i \in 1..Len(bus_ids) : gpu_result.value = bus_ids[i]

\* the pages the nodes of the next window of the call need, and those of
\* its look-ahead window
NextWindowPages ==
    NeededPages(graph, pg_args, LockedWindow(graph, pg_args.node, pg_args.num))
LookAheadPages ==
    NeededPages(graph, pg_args, LockWindow(graph, pg_args.node, pg_args.num))

\* a call of prefetch_nodes has made all its system calls
PrefetchSucceeded == pg_pc = "done" /\ pg_result.status = "ok"

\* C21: at every call of prefetch_nodes, at node 0 or at any other
\* node, the pages needed by the next window are passed to mlock, as are the
\* pages of the look-ahead window.
NextWindowLockedAtEveryCall ==
    PrefetchSucceeded =>
       /\ NextWindowPages \subseteq pg_locked
       /\ LookAheadPages \subseteq pg_locked

\* the ranges seen whose first byte lies in the page at an address, and the
\* size of a range counted from the floor of its first page to the end of
\* its last
RangesOfPage(a) == {r \in bp_seen : PageFloor(r.address) = a}
PagesSize(r) == PageSize * Cardinality(PagesOfSpan(r.address, r.len))

\* C22: after any sequence of build_pages calls on one page map, the
\* addresses of the map are exactly the page floors of the byte ranges seen,
\* and the size stored for an address is the maximum of the sizes computed
\* for the ranges that mapped to it.
MaximumPageSize ==
    /\ DOMAIN bp_pages = {PageFloor(r.address) : r \in bp_seen}
    /\ \A a \in DOMAIN bp_pages :
          /\ \E r \in RangesOfPage(a) : bp_pages[a].size = PagesSize(r)
          /\ \A r \in RangesOfPage(a) : bp_pages[a].size >= PagesSize(r)

\* a page of the map has seen a range that ends in it and a range that
\* ends in the next page, and another page has an entry
MaximumPageSizeReached ==
    /\ Cardinality(DOMAIN bp_pages) >= 2
    /\ \E a \in DOMAIN bp_pages : \E r1, r2 \in RangesOfPage(a) :
          PagesSize(r1) < PagesSize(r2)

\* the layers a challenge index is included at, and the j-th of them in
\* increasing order
IncludedLayers(challenge_index) ==
    {l \in 1..layers : IncludeChallengeAtLayer(taper, layers, l, challenge_index)}
NthIncluded(challenge_index, j) ==
    CHOOSE l \in IncludedLayers(challenge_index) :
        Cardinality({m \in IncludedLayers(challenge_index) : m < l}) = j - 1

\* C23: for every challenge c with index idx, the encoding_proofs of its
\* Proof hold exactly one EncodingProof for each layer l of 1..L with
\* include_challenge_at_layer(l, idx), in increasing layer order, and none
\* for an excluded layer; each has node = c and parents_data of d_base
\* labels on layer 1 and of d_base + d_exp labels on any other layer, the
\* labels of its layer's parents.
EncodingProofInclusion ==
    \A p \in EmittedProofs :
        LET eps == p.proof.encoding_proofs IN
        /\ Len(eps) = Cardinality(IncludedLayers(p.challenge_index))
        /\ \A j \in 1..Len(eps) :
              LET l == NthIncluded(p.challenge_index, j)
                  parents == Parents(graph, p.challenge)
              IN /\ eps[j].node = p.challenge
                 /\ Len(eps[j].parents) = (IF l = 1 THEN DBase ELSE DBase + DExp)
                 /\ \A i \in 1..Len(eps[j].parents) :
                       eps[j].parents[i] =
                           LabelAt(IF i <= DBase THEN l ELSE l - 1, parents[i])

\* a Proof was emitted for a challenge index that is excluded at layer 1,
\* and one for an index included at every layer of several
EncodingProofInclusionReached ==
    /\ layers > 1
    /\ \E p \in EmittedProofs :
          /\ 1 \notin IncludedLayers(p.challenge_index)
          /\ Len(p.proof.encoding_proofs) >= 1
    /\ \E p \in EmittedProofs : Len(p.proof.encoding_proofs) = layers

\* an opening of the column of node x against TreeC
OpensColumn(column_proof, x) ==
    /\ column_proof.column.index = x
    /\ column_proof.column.rows = [l \in 1..layers |-> LabelAt(l, x)]
    /\ column_proof.inclusion_proof.leaf = HashColumn(column_proof.column.rows)
    /\ ProofValidates(column_proof.inclusion_proof, x, rep_result.p_aux.comm_c)

\* C24: for every challenge c, the ReplicaColumnProof holds the opening of
\* the column of c, exactly d_base openings for the columns of
\* graph.base_parents(c) in the order returned, and exactly d_exp openings
\* for the columns of graph.expanded_parents(c) in the order returned, all
\* opened against TreeC.
ReplicaColumnProofShape ==
    \A p \in EmittedProofs :
        LET rpc == p.proof.replica_column_proofs IN
        /\ OpensColumn(rpc.c_x, p.challenge)
        /\ Len(rpc.drg_parents) = DBase
        /\ \A i \in 1..DBase :
              OpensColumn(rpc.drg_parents[i], BaseParents(graph, p.challenge)[i])
        /\ Len(rpc.exp_parents) = DExp
        /\ \A i \in 1..DExp :
              OpensColumn(rpc.exp_parents[i], ExpandedParents(graph, p.challenge)[i])

\* a Proof was emitted for a challenge whose base parents differ from one
\* another and from its expander parents
ReplicaColumnProofShapeReached ==
    \E p \in EmittedProofs :
        /\ BaseParents(graph, p.challenge)[1] # BaseParents(graph, p.challenge)[DBase]
        /\ ExpandedParents(graph, p.challenge) # BaseParents(graph, p.challenge)
        /\ ExpandedParents(graph, p.challenge)[1] # ExpandedParents(graph, p.challenge)[DExp]

\* a thread replicate spawned has failed: the label engine (before extract
\* runs it again), the thread of TreeR_last, a column worker
LabelEngineFailed == ext_pc = "idle" /\ gl_pc \in {"err", "panic"}
TreeRLastFailed == trl_pc = "panic"
ColumnWorkerFailed == \E w \in Workers : col_iter[w] < 0

\* C25: if the label-engine thread, the thread of TreeR_last or any of the
\* four column workers fails, replicate returns no successful (Tau,
\* PersistentAux, TemporaryAux): the failure reaches the join of the thread
\* and ends the scope there, with an error or a panic, no later stage run.
WorkerFailurePropagation ==
    /\ (rep_pc = "done" /\ (LabelEngineFailed \/ TreeRLastFailed \/ ColumnWorkerFailed))
          => rep_result.status \in {"err", "panic"}
    /\ (rep_pc # "idle" /\ LabelEngineFailed) =>
          (enc_done = {} /\ trl_pc = "idle" /\ cs = <<>> /\ tree_c = None)
    /\ ColumnWorkerFailed =>
          (tree_c = None /\ rep_pc \in {"columns", "unwind", "done"})
    /\ (rep_pc = "done" /\ rep_result.status = "ok") =>
          (trl_pc = "done" /\ \A w \in Workers : col_iter[w] = ColSliceLen(w))

\* replicate has returned after the failure of a column worker that had
\* written a chunk, the thread of TreeR_last having built its tree
WorkerFailurePropagationReached ==
    /\ rep_pc = "done"
    /\ ColumnWorkerFailed
    /\ \E x \in AllNodes : DataAtNode(cs, x) # 0
    /\ trl_pc = "done"

\* no thread replicate spawned is running: the label engine (before extract
\* runs it again), the thread of TreeR_last, the column workers
ThreadsTerminated ==
    /\ ext_pc = "idle" => gl_pc # "run"
    /\ trl_pc # "run"
    /\ trl_pc # "idle" =>
          \A w \in Workers : col_iter[w] = ColSliceLen(w) \/ col_iter[w] < 0

\* C26: under fair scheduling of its threads, replicate always reaches its
\* return, with no deadlock among the label-engine thread, the thread of
\* TreeR_last and the four column workers, and when it returns every thread
\* it spawned has terminated.
StructuredJoins ==
    /\ (rep_pc \notin {"idle", "done"}) ~> (rep_pc = "done")
    /\ [](rep_pc = "done" => ThreadsTerminated)

\* replicate has returned its result over a graph whose four column
\* workers each wrote a chunk, every thread terminated
StructuredJoinsReached ==
    /\ rep_pc = "done"
    /\ rep_result.status = "ok"
    /\ graph.size = MaxNodes
    /\ layers = MaxLayers
    /\ ThreadsTerminated
    /\ ext_pc = "idle" /\ prv_pc = "idle"

\* the chunks the zip pairs with a key: those of data below the graph's size
ZippedChunks == {x \in 0..(Len(orig) - 1) : x < graph.size}

\* the zipped chunks of the caller's buffer that do not parse
UnparsedChunks == {x \in ZippedChunks : ~IsFr(orig[x + 1])}

\* chunk x holds the decoding of the caller's chunk under the last layer's label
ChunkDecoded(x) == data[x + 1] = decode(DataAtNode(encodings[layers], x), orig[x + 1])

\* C29: extract_and_invert_transform_layers keeps the length of data and every
\* chunk beyond node N-1; with the layers generated, whatever the length of
\* data (no check compares it with N * NODE_SIZE), it returns Ok with chunk
\* x replaced by decode(label_L(x), chunk x) for every x below min(N, chunks
\* of data) when those chunks all parse, and otherwise returns an error with
\* the chunks before the first that does not parse decoded and the others
\* as the caller passed them
ExtractFrameAndLength ==
    /\ Len(data) = Len(orig)
    /\ \A x \in 0..(Len(data) - 1) : x >= graph.size => data[x + 1] = orig[x + 1]
    /\ (ext_pc = "done" /\ gl_pc = "ok") =>
          IF UnparsedChunks = {}
          THEN /\ ext_result.status = "ok"
               /\ \A x \in ZippedChunks : ChunkDecoded(x)
          ELSE /\ ext_result.status = "err"
               /\ \A x \in ZippedChunks :
                      IF \A b \in UnparsedChunks : x < b
                      THEN ChunkDecoded(x)
                      ELSE data[x + 1] = orig[x + 1]
    /\ (ext_pc = "done" /\ gl_pc # "ok") => data = orig /\ ext_result.status # "ok"

\* Ok on a buffer one chunk longer than the graph, whose last chunk does not
\* parse and is never read, with a chunk below N changed by the decoding
ExtractFrameAndLengthReached ==
    /\ ext_pc = "done"
    /\ ext_result.status = "ok"
    /\ Len(data) = graph.size + 1
    /\ ~IsFr(data[Len(data)])
    /\ \E x \in ZippedChunks : data[x + 1] # orig[x + 1]

\* C27: when prefetch_nodes is called within one layer at nodes 0, W,
\* 2W, ... in increasing order and every lock call succeeds, then after the
\* call at node x every page that holds a label needed by a node of the
\* window [x, min(N, x + W)) is locked: locked by this call or an earlier one
\* and not unlocked since.
WindowResidencyAcrossCalls ==
    (PrefetchSucceeded /\ ~pg_failed) => NextWindowPages \subseteq pg_locked

====
